---- MODULE Spec2Model ----
(***************************************************************************)
(* Alert processing pipeline of the enterprise security-to-Jira app:       *)
(* queue workers running processAlertMessage against a shared tracker.     *)
(*                                                                         *)
(* Text that the program builds or rewrites character by character         *)
(* (labels) is a sequence of one-character strings.  Values the program    *)
(* only compares or looks up (severities, alert types, event names) are    *)
(* TLA+ strings; Chars gives their spelling where they are interpolated    *)
(* into a label.  An issue key is the sequence of its hyphen-separated     *)
(* segments, <<"AUTH", "1">> for AUTH-1.                                   *)
(***************************************************************************)
EXTENDS Integers, Sequences, FiniteSets, TLC

\* JavaScript's null/undefined, by the type of the value it stands in for.
Null == "null"

NoKey == <<>>

NoAlert == [_type |-> "none"]

NoPR == [number |-> 0, body |-> <<>>, commits |-> <<>>]

Min(a, b) == IF a < b THEN a ELSE b

\* ------------------------------------------------------------------------
\* utils/sanitization
\* ------------------------------------------------------------------------

MAX_LABEL_LENGTH == 255

MAX_TRAVERSAL_DEPTH == 5

\* The characters /[^a-zA-Z0-9_.\-]/ leaves alone, as far as the model's
\* alphabet goes.
SafeLabelChars ==
  {"a", "b", "c", "d", "e", "f", "g", "h", "i", "j", "k", "l", "m", "n", "o", "p", "q",
   "r", "s", "t", "u", "v", "w", "x", "y", "z", "A", "B", "C", "S", "E",
   "0", "1", "2", "3", "4", "5", "6", "7", "8", "9", "_", ".", "-"}

sanitizeLabel(value) ==
  IF value = <<>> THEN <<>>
  ELSE [i \in 1..Min(Len(value), MAX_LABEL_LENGTH) |->
          IF value[i] \in SafeLabelChars THEN value[i] ELSE "-"]

\* escapeJql followed by the tracker's own unquoting of the JQL string
\* literal: a backslash or a double quote is escaped and read back as itself.
EscapeOne(c) == IF c = "\\" \/ c = "\"" THEN <<"\\", c>> ELSE <<c>>

RECURSIVE escapeJql(_)
escapeJql(value) ==
  IF value = <<>> THEN <<>>
  ELSE EscapeOne(Head(value)) \o escapeJql(Tail(value))

RECURSIVE JqlUnquote(_)
JqlUnquote(lit) ==
  IF lit = <<>> THEN <<>>
  ELSE IF Head(lit) = "\\" /\ Len(lit) >= 2
       THEN <<lit[2]>> \o JqlUnquote(Tail(Tail(lit)))
       ELSE <<Head(lit)>> \o JqlUnquote(Tail(lit))

\* A project segment matches [A-Z][A-Z0-9]+ and a number segment \d+.
ProjectSegments == {"AUTH", "SUB", "PROJ", "SEC"}

NumberSegments == {"1", "2", "3", "4", "5", "6", "7", "8", "9", "100", "123", "200"}

\* First segments that FALSE_POSITIVE_PATTERN rejects when a number follows.
FalsePositivePrefixes ==
  {"HTTP", "ERROR", "ISO", "UTF", "TCP", "UDP", "SSL", "TLS", "API", "SDK", "CLI", "URL", "URI"}

\* [A-Z][A-Z0-9]+ : a segment that may start a key.
LeadSegments == ProjectSegments \cup FalsePositivePrefixes \cup {"HTTPS"}

\* JIRA_KEY_PATTERN = /^[A-Z][A-Z0-9]+-\d+$/ : one lead segment, one number.
isValidJiraKey(key) ==
  /\ Len(key) = 2
  /\ key[1] \in LeadSegments
  /\ key[2] \in NumberSegments

SEVERITY_ORDER ==
  [critical |-> 4, high |-> 3, medium |-> 2, low |-> 1, note |-> 0, warning |-> 0]

VALID_SEVERITIES == DOMAIN SEVERITY_ORDER

\* String.prototype.toLowerCase on the severities the model feeds in.
ToLower(s) ==
  CASE s = "HIGH" -> "high"
    [] s = "Critical" -> "critical"
    [] OTHER -> s

SeverityLevel(s) ==
  IF s # Null /\ ToLower(s) \in DOMAIN SEVERITY_ORDER THEN SEVERITY_ORDER[ToLower(s)] ELSE 0

meetsSeverityThresholdStrict(alertSeverity, threshold) ==
  SeverityLevel(alertSeverity) > SeverityLevel(threshold)

\* SEVERITY_ORDER is an object literal: besides its own keys, a lookup finds
\* the lower-case property names it inherits from Object.prototype, whose
\* values are not null, so `?? 0` keeps them.
PrototypeKeys == {"constructor", "__proto__"}

\* SEVERITY_ORDER[(s || '').toLowerCase()] ?? 0 : a number, or an inherited
\* value (rank orders the strings such values convert to: "[object Object]"
\* before "function Object() { [native code] }").
OrderLookup(s) ==
  IF s # Null /\ ToLower(s) \in PrototypeKeys
  THEN [num |-> FALSE, n |-> IF ToLower(s) = "__proto__" THEN 1 ELSE 2]
  ELSE [num |-> TRUE, n |-> SeverityLevel(s)]

\* a >= b : numbers compare as numbers, two non-numbers as their strings,
\* a number with a non-number is a comparison with NaN.
GreaterOrEqual(a, b) == a.num = b.num /\ a.n >= b.n

meetsSeverityThreshold(alertSeverity, threshold) ==
  GreaterOrEqual(OrderLookup(alertSeverity), OrderLookup(threshold))

sanitizeSeverityUnchecked(value) ==
  IF value = Null \/ value = "" THEN "medium" ELSE ToLower(value)

sanitizeSeverity(value) ==
  IF value = Null \/ value = "" THEN "medium"
  ELSE IF ToLower(value) \in VALID_SEVERITIES THEN ToLower(value) ELSE "medium"

\* A raw JSON value where a number is expected: missing, an integer, or a
\* number that is not a safe integer (NaN, Infinity, 1.5, 2^53).
Missing == [kind |-> "missing", val |-> 0]

IntNum(n) == [kind |-> "int", val |-> n]

Unsafe == [kind |-> "unsafe", val |-> 0]

\* JSON values that are not numbers: the empty string, false, and a string
\* that is not numeric.
EmptyString == [kind |-> "emptyString", val |-> 0]

FalseValue == [kind |-> "false", val |-> 0]

WordString == [kind |-> "wordString", val |-> 0]

\* Number(value): an integer is itself, '' and false convert to 0, a string
\* that is not numeric to NaN; "unsafe" stands for the numbers that are not
\* safe integers (fractions, 2^53 and above, Infinity).
ToNumber(value) ==
  CASE value.kind = "int" -> IntNum(value.val)
    [] value.kind \in {"emptyString", "false"} -> IntNum(0)
    [] OTHER -> Unsafe

\* value == null gives the fallback null (Missing); so does a Number(value)
\* that is not finite, negative or not a safe integer.
sanitizeNumber(value) ==
  IF value.kind = "missing" THEN Missing
  ELSE LET num == ToNumber(value)
       IN  IF num.kind = "int" /\ num.val >= 0 THEN num ELSE Missing

\* sanitizeUrl: an http(s) URL is kept, anything else becomes ''.
ValidUrls == {"https://gh/alert"}

sanitizeUrl(value) == IF value \in ValidUrls THEN value ELSE ""

\* ------------------------------------------------------------------------
\* Spelling of the values interpolated into labels
\* ------------------------------------------------------------------------

Chars(s) ==
  CASE s = "critical" -> <<"c", "r", "i", "t", "i", "c", "a", "l">>
    [] s = "high" -> <<"h", "i", "g", "h">>
    [] s = "medium" -> <<"m", "e", "d", "i", "u", "m">>
    [] s = "low" -> <<"l", "o", "w">>
    [] s = "note" -> <<"n", "o", "t", "e">>
    [] s = "warning" -> <<"w", "a", "r", "n", "i", "n", "g">>
    [] s = "code_scanning" -> <<"c", "o", "d", "e", "_", "s", "c", "a", "n", "n", "i", "n", "g">>
    [] s = "secret_scanning" ->
         <<"s", "e", "c", "r", "e", "t", "_", "s", "c", "a", "n", "n", "i", "n", "g">>
    [] s = "dependabot" -> <<"d", "e", "p", "e", "n", "d", "a", "b", "o", "t">>
    [] s = "gh-alert-" -> <<"g", "h", "-", "a", "l", "e", "r", "t", "-">>
    [] s = "severity-" -> <<"s", "e", "v", "e", "r", "i", "t", "y", "-">>
    [] s = "repo-" -> <<"r", "e", "p", "o", "-">>
    [] s = "-" -> <<"-">>

DigitChar(d) == <<"0", "1", "2", "3", "4", "5", "6", "7", "8", "9">>[d + 1]

\* Template interpolation of a non-negative integer: its decimal digits.
RECURSIVE NumChars(_)
NumChars(n) ==
  IF n < 10 THEN <<DigitChar(n)>>
  ELSE NumChars(n \div 10) \o <<DigitChar(n % 10)>>

\* value.replace(/_/g, '-')
ReplaceUnderscores(value) ==
  [i \in 1..Len(value) |-> IF value[i] = "_" THEN "-" ELSE value[i]]

\* String.prototype.split('/')
RECURSIVE SplitSlash(_)
SplitSlash(s) ==
  IF \A i \in 1..Len(s) : s[i] # "/" THEN <<s>>
  ELSE LET i == CHOOSE j \in 1..Len(s) : s[j] = "/" /\ \A k \in 1..(j - 1) : s[k] # "/"
       IN  <<SubSeq(s, 1, i - 1)>> \o SplitSlash(SubSeq(s, i + 1, Len(s)))

\* repo.split('/')[1] || repo
RepoShortName(repoFullName) ==
  LET parts == SplitSlash(repoFullName)
  IN  IF Len(parts) >= 2 /\ parts[2] # <<>> THEN parts[2] ELSE repoFullName

\* `gh-alert-${repoName}-${alert._type}-${alert.number}`
IdentityTemplate(repoName, type, number) ==
  Chars("gh-alert-") \o repoName \o Chars("-") \o Chars(type) \o Chars("-") \o NumChars(number)

\* ------------------------------------------------------------------------
\* utils/severity, utils/jira-key-extractor
\* ------------------------------------------------------------------------

SEVERITY_PRIORITY_MAP ==
  [critical |-> "Highest", high |-> "High", medium |-> "Medium", low |-> "Low",
   warning |-> "Low", note |-> "Lowest", error |-> "High"]

mapSeverityToPriorityAllMedium(severity) == "Medium"

\* SEVERITY_PRIORITY_MAP[severity?.toLowerCase()] || 'Medium' : the object
\* literal also answers for the property names it inherits, with a value
\* that is truthy and no priority name.
mapSeverityToPriority(severity) ==
  IF severity = Null THEN "Medium"
  ELSE IF ToLower(severity) \in DOMAIN SEVERITY_PRIORITY_MAP
       THEN SEVERITY_PRIORITY_MAP[ToLower(severity)]
       ELSE IF ToLower(severity) \in PrototypeKeys THEN "[inherited]" ELSE "Medium"

\* (security_severity_level || severity || 'medium').toLowerCase()
getEffectiveSeverity(alert) ==
  ToLower(IF alert.rule.security_severity_level # ""
          THEN alert.rule.security_severity_level
          ELSE IF alert.rule.severity # "" THEN alert.rule.severity ELSE "medium")

\* A text is the sequence of its hyphenated tokens; a token is the sequence
\* of its segments.  /[A-Z][A-Z0-9]+(?:-[A-Z0-9]+)*-\d+/
MatchesKeyGrammar(token) ==
  /\ Len(token) >= 2
  /\ token[1] \in LeadSegments
  /\ \A i \in 2..(Len(token) - 1) : token[i] \in LeadSegments \cup NumberSegments
  /\ token[Len(token)] \in NumberSegments

IsFalsePositiveNever(token) == FALSE

IsFalsePositive(token) == Len(token) = 2 /\ token[1] \in FalsePositivePrefixes

\* A token may stand bare, after a marker (`JIRA: PROJ-1`, written with the
\* marker as first segment) or in square brackets.
Labelled(token) == <<"JIRA:">> \o token

Bracketed(token) == <<"[">> \o token \o <<"]">>

IsLabelled(item) == item # <<>> /\ item[1] = "JIRA:"

IsBracketed(item) == Len(item) >= 2 /\ item[1] = "[" /\ item[Len(item)] = "]"

\* match[1] of each of JIRA_KEY_PATTERNS on one item, <<>> without a match.
\* The direct pattern needs only word boundaries, so it also finds the key
\* after a marker and inside brackets.
JIRA_KEY_PATTERNS == <<"direct", "marker", "bracket">>

PatternCapture(pattern, item) ==
  LET inner == IF IsLabelled(item) THEN Tail(item)
               ELSE IF IsBracketed(item) THEN SubSeq(item, 2, Len(item) - 1)
               ELSE item
  IN  CASE pattern = "direct" -> IF MatchesKeyGrammar(inner) THEN inner ELSE <<>>
        [] pattern = "marker" ->
             IF IsLabelled(item) /\ MatchesKeyGrammar(inner) THEN inner ELSE <<>>
        [] pattern = "bracket" ->
             IF IsBracketed(item) /\ MatchesKeyGrammar(inner) THEN inner ELSE <<>>

\* The captures in the order the two loops visit them: pattern by pattern,
\* within a pattern in text order.
RECURSIVE PatternMatches(_, _)
PatternMatches(patterns, text) ==
  IF patterns = <<>> THEN <<>>
  ELSE [i \in 1..Len(text) |-> PatternCapture(Head(patterns), text[i])]
         \o PatternMatches(Tail(patterns), text)

\* keys.add for every capture that passes the two tests: the keys in the
\* insertion order of the Set.
RECURSIVE CollectKeys(_)
CollectKeys(captures) ==
  IF captures = <<>> THEN <<>>
  ELSE LET front == CollectKeys(SubSeq(captures, 1, Len(captures) - 1))
           key == captures[Len(captures)]
       IN  IF /\ key # <<>>
              /\ MatchesKeyGrammar(key)
              /\ ~IsFalsePositive(key)
              /\ \A i \in 1..Len(front) : front[i] # key
           THEN Append(front, key)
           ELSE front

extractJiraKeys(text) == CollectKeys(PatternMatches(JIRA_KEY_PATTERNS, text))

RECURSIVE FirstCommitKey(_)
FirstCommitKey(commits) ==
  IF commits = <<>> THEN NoKey
  ELSE LET commitKeys == extractJiraKeys(Head(commits))
       IN  IF Len(commitKeys) > 0 THEN commitKeys[1] ELSE FirstCommitKey(Tail(commits))

findUserStoryCommitsFirst(prDescription, commits) ==
  LET prKeys == extractJiraKeys(prDescription)
      commitKey == FirstCommitKey(commits)
  IN  IF commitKey # NoKey THEN commitKey
      ELSE IF Len(prKeys) > 0 THEN prKeys[1] ELSE NoKey

findUserStory(prDescription, commits) ==
  LET prKeys == extractJiraKeys(prDescription)
  IN  IF Len(prKeys) > 0 THEN prKeys[1] ELSE FirstCommitKey(commits)

\* /^([A-Z][A-Z0-9-]+?)-\d+$/ : everything before the final number segment.
extractProjectKey(issueKey, fallback) ==
  IF /\ Len(issueKey) >= 2
     /\ issueKey[1] \in LeadSegments
     /\ issueKey[Len(issueKey)] \in NumberSegments
  THEN SubSeq(issueKey, 1, Len(issueKey) - 1)
  ELSE <<fallback>>

\* ------------------------------------------------------------------------
\* workers/alert-normalizer
\* ------------------------------------------------------------------------

Or(a, b) == IF a # Null /\ a # "" THEN a ELSE b

\* sanitizeString on the strings the model feeds in: null and undefined give
\* '', surrounding blanks are trimmed.
sanitizeString(value) ==
  CASE value = Null -> ""
    [] value = "   " -> ""
    [] value = " src/a.js " -> "src/a.js"
    [] OTHER -> value

normalizeAlert(eventName, rawAlert) ==
  IF ~rawAlert.isObject THEN NoAlert
  ELSE IF sanitizeNumber(rawAlert.number) = Missing THEN NoAlert
  ELSE CASE eventName = "code_scanning_alert" ->
              [_type |-> "code_scanning",
               number |-> sanitizeNumber(rawAlert.number).val,
               html_url |-> sanitizeUrl(rawAlert.html_url),
               rule |-> [id |-> sanitizeString(rawAlert.rule_id),
                         severity |-> sanitizeSeverity(rawAlert.rule_severity),
                         security_severity_level |->
                           sanitizeSeverity(Or(rawAlert.rule_security_severity_level,
                                               rawAlert.rule_severity)),
                         description |-> Or(sanitizeString(rawAlert.rule_description),
                                            "Code Scanning Alert")],
               location |-> [path |-> sanitizeString(rawAlert.path),
                             start_line |-> sanitizeNumber(rawAlert.start_line),
                             end_line |-> sanitizeNumber(rawAlert.end_line)],
               commit_sha |-> rawAlert.commit_sha]
         [] eventName = "secret_scanning_alert" ->
              [_type |-> "secret_scanning",
               number |-> sanitizeNumber(rawAlert.number).val,
               html_url |-> sanitizeUrl(rawAlert.html_url),
               rule |-> [id |-> Or(sanitizeString(rawAlert.secret_type), "secret"),
                         severity |-> "critical", security_severity_level |-> "critical",
                         description |-> "Secret Detected"],
               location |-> [path |-> "N/A", start_line |-> Missing, end_line |-> Missing],
               commit_sha |-> ""]
         [] eventName = "dependabot_alert" ->
              [_type |-> "dependabot",
               number |-> sanitizeNumber(rawAlert.number).val,
               html_url |-> sanitizeUrl(rawAlert.html_url),
               rule |-> [id |-> Or(sanitizeString(rawAlert.advisory_id), "dependabot-n"),
                         severity |-> sanitizeSeverity(rawAlert.advisory_severity),
                         security_severity_level |->
                           sanitizeSeverity(rawAlert.advisory_severity),
                         description |-> Or(sanitizeString(rawAlert.advisory_summary),
                                            "Dependabot Alert")],
               location |-> [path |-> Or(sanitizeString(rawAlert.path), "N/A"),
                             start_line |-> Missing, end_line |-> Missing],
               commit_sha |-> ""]
         [] OTHER -> NoAlert

\* ------------------------------------------------------------------------
\* config/defaults, services/config
\* ------------------------------------------------------------------------

\* { ...a, ...b } : b's fields over a's.
Spread(a, b) ==
  [k \in DOMAIN a \cup DOMAIN b |-> IF k \in DOMAIN b THEN b[k] ELSE a[k]]

createDefaultOrgConfig ==
  [enabled |-> TRUE,
   jira |-> [defaultProject |-> "SEC",
             linkType |-> "Relates",
             securityLabel |-> <<"g", "i", "t", "h", "u", "b", "-", "s", "e", "c", "u", "r",
                                 "i", "t", "y", "-", "a", "l", "e", "r", "t">>,
             fallbackLabel |-> <<"m", "i", "s", "s", "i", "n", "g", "-", "u", "s", "e", "r",
                                 "-", "s", "t", "o", "r", "y">>],
   alerts |-> [code_scanning |-> [enabled |-> TRUE, severityThreshold |-> "low"],
               secret_scanning |-> [enabled |-> TRUE, severityThreshold |-> "low"],
               dependabot |-> [enabled |-> TRUE, severityThreshold |-> "medium"]],
   epicResolution |-> [enabled |-> TRUE, validateType |-> TRUE, traverseHierarchy |-> TRUE,
                       acceptedTypes |-> {"Epic", "Story"}],
   notifications |-> [prComment |-> [enabled |-> TRUE],
                      slack |-> [enabled |-> FALSE, webhookRef |-> ""],
                      teams |-> [enabled |-> FALSE, webhookRef |-> ""]],
   repoOverrides |-> <<>>]

mergeRepoOverrides(orgConfig, repoFullName) ==
  IF repoFullName \notin DOMAIN orgConfig.repoOverrides THEN orgConfig
  ELSE LET override == orgConfig.repoOverrides[repoFullName]
           jira == IF "jira" \in DOMAIN override
                   THEN Spread(orgConfig.jira, override.jira)
                   ELSE orgConfig.jira
           alerts == IF "alerts" \in DOMAIN override
                     THEN [t \in DOMAIN orgConfig.alerts |->
                             IF t \in DOMAIN override.alerts
                             THEN Spread(orgConfig.alerts[t], override.alerts[t])
                             ELSE orgConfig.alerts[t]]
                     ELSE orgConfig.alerts
       IN  [orgConfig EXCEPT !.jira = jira, !.alerts = alerts]

\* The object handed to mergeRepoOverrides as the call leaves it: `merged` is
\* a shallow copy, so merged.jira is replaced on the copy while
\* merged.alerts[key] is assigned on the alerts object both share.
OrgConfigAfterMerge(orgConfig, repoFullName) ==
  [orgConfig EXCEPT !.alerts = mergeRepoOverrides(orgConfig, repoFullName).alerts]

\* ------------------------------------------------------------------------
\* services/jira: issue payload, duplicate query, EPIC resolver
\* ------------------------------------------------------------------------

\* createJiraIssue: the labels of the payload.
IssueLabelsNoIdentity(alert, userStory, jiraConfig, repoFullName) ==
  LET repoName == RepoShortName(repoFullName)
      severity == getEffectiveSeverity(alert)
  IN  {sanitizeLabel(jiraConfig.securityLabel),
       sanitizeLabel(Chars("severity-") \o Chars(severity)),
       sanitizeLabel(Chars("repo-") \o repoName),
       sanitizeLabel(ReplaceUnderscores(Chars(alert._type)))}
      \cup (IF userStory = NoKey THEN {sanitizeLabel(jiraConfig.fallbackLabel)} ELSE {})

IssueLabelsAlwaysFallback(alert, userStory, jiraConfig, repoFullName) ==
  IssueLabelsNoIdentity(alert, userStory, jiraConfig, repoFullName)
    \cup {sanitizeLabel(IdentityTemplate(RepoShortName(repoFullName), alert._type,
                                        alert.number)),
          sanitizeLabel(jiraConfig.fallbackLabel)}

IssueLabels(alert, userStory, jiraConfig, repoFullName) ==
  LET repoName == RepoShortName(repoFullName)
      severity == getEffectiveSeverity(alert)
  IN  {sanitizeLabel(jiraConfig.securityLabel),
       sanitizeLabel(Chars("severity-") \o Chars(severity)),
       sanitizeLabel(Chars("repo-") \o repoName),
       sanitizeLabel(ReplaceUnderscores(Chars(alert._type))),
       sanitizeLabel(IdentityTemplate(repoName, alert._type, alert.number))}
      \cup (IF userStory = NoKey THEN {sanitizeLabel(jiraConfig.fallbackLabel)} ELSE {})

\* buildDescription: the labelled paragraphs of the document in order, each
\* text a sequence of its interpolated parts.
LineText(line) == IF line = Missing THEN <<"N/A">> ELSE NumChars(line.val)

buildDescription(alert, repoFullName, prUrl, headSha, prNumber) ==
  LET filePath == Or(alert.location.path, "Unknown")
      startLine == LineText(alert.location.start_line)
      endLine == LineText(alert.location.end_line)
  IN  << [section |-> "Severity", text |-> <<getEffectiveSeverity(alert)>>],
         [section |-> "Rule", text |-> <<alert.rule.id>>],
         [section |-> "Affected File", text |-> <<filePath>>],
         [section |-> "Lines", text |-> startLine \o <<"-">> \o endLine],
         [section |-> "Description",
          text |-> <<Or(alert.rule.description, "No description available")>>],
         [section |-> "GitHub Security Alert", text |-> <<Or(alert.html_url, "N/A")>>],
         [section |-> "Pull Request", text |-> <<Or(prUrl, "N/A")>>],
         [section |-> "Repository", text |-> repoFullName],
         [section |-> "Commit SHA", text |-> <<Or(sanitizeString(headSha), "N/A")>>] >>
      \o (IF prNumber # 0
          THEN << [section |-> "PR Number", text |-> <<"#">> \o NumChars(prNumber)] >>
          ELSE <<>>)

\* processAlertMessage's prUrl and headSha: those of the pull request found
\* for the commit, else '' and the alert's commit.
PrUrl(prNumber) == IF prNumber # 0 THEN "https://gh/pull" ELSE ""

HeadSha(commitSha, prNumber) == IF prNumber # 0 THEN "head" ELSE commitSha

\* createJiraIssue: the project of the payload, as key segments.
IssueProject(userStory, jiraConfig) ==
  IF userStory # NoKey
  THEN extractProjectKey(userStory, jiraConfig.defaultProject)
  ELSE <<jiraConfig.defaultProject>>

\* checkForDuplicate: the two labels of the JQL conjunction, as the tracker
\* reads them out of the quoted literals.
DedupSearchLabels(alert, repoName, securityLabel) ==
  {JqlUnquote(escapeJql(IdentityTemplate(repoName, alert._type, alert.number))),
   JqlUnquote(escapeJql(securityLabel))}

\* The tracker's answer to the search: the issues carrying every label.
SearchMatches(trackerIssues, wanted) ==
  {i \in 1..Len(trackerIssues) : wanted \subseteq trackerIssues[i].labels}

\* resolveEpic's entry test.
ResolveEpicStopsLate(issueKey, depth) ==
  ~isValidJiraKey(issueKey) \/ depth > MAX_TRAVERSAL_DEPTH

ResolveEpicStops(issueKey, depth) ==
  ~isValidJiraKey(issueKey) \/ depth >= MAX_TRAVERSAL_DEPTH

\* ------------------------------------------------------------------------
\* api/webhooks: signature check, event filter, enqueue
\* ------------------------------------------------------------------------

\* A request body as far as the handler reads it; `severity` stands for the
\* severity field extractSeverity reads for the request's event.
NoBody == [action |-> "", org |-> "", installationId |-> 0, severity |-> ""]

\* The x-hub-signature-256 header.  "absent": no header; "empty": '';
\* "short": a text whose length is not that of `sha256=` and 64 hex digits;
\* "hmac": `sha256=` and the HMAC-SHA256 of `body` under `key`.
PlainSignature(kind) == [kind |-> kind, key |-> "", body |-> NoBody]

Hmac(key, body) == [kind |-> "hmac", key |-> key, body |-> body]

SignatureLength(signature) ==
  CASE signature.kind = "hmac" -> 71
    [] signature.kind = "short" -> 10
    [] OTHER -> 0

\* timingSafeEqual throws on buffers of different length, which the catch
\* turns into false; on equal lengths it compares the bytes.
verifyWebhookSignatureLengthOnly(payload, signature, secret) ==
  IF signature.kind \in {"absent", "empty"} \/ secret = "" THEN FALSE
  ELSE SignatureLength(signature) = SignatureLength(Hmac(secret, payload))

verifyWebhookSignature(payload, signature, secret) ==
  IF signature.kind \in {"absent", "empty"} \/ secret = "" THEN FALSE
  ELSE LET expected == Hmac(secret, payload)
       IN  IF SignatureLength(signature) # SignatureLength(expected) THEN FALSE
           ELSE signature = expected

SUPPORTED_EVENTS ==
  {"code_scanning_alert", "secret_scanning_alert", "dependabot_alert", "installation",
   "installation_repositories"}

ALERT_EVENTS == {"code_scanning_alert", "secret_scanning_alert", "dependabot_alert"}

AlertActionsWithFixed == {"created", "reopened", "fixed"}

ALERT_ACTIONS == {"created", "reopened"}

extractSeverityUnsanitized(event, payload) ==
  CASE event \in {"code_scanning_alert", "dependabot_alert"} ->
         IF payload.severity = "" THEN "medium" ELSE payload.severity
    [] event = "secret_scanning_alert" -> "critical"
    [] OTHER -> "medium"

extractSeverity(event, payload) ==
  CASE event \in {"code_scanning_alert", "dependabot_alert"} ->
         sanitizeSeverity(payload.severity)
    [] event = "secret_scanning_alert" -> "critical"
    [] OTHER -> "medium"

\* services/queue
QUEUE_MAP ==
  [critical |-> "alerts-critical", high |-> "alerts-high", medium |-> "alerts-medium",
   low |-> "alerts-low"]

DEFAULT_QUEUE == "alerts-medium"

\* QUEUE_MAP[message.severity] || DEFAULT_QUEUE : QUEUE_MAP is a plain
\* object, so a property name inherited from Object.prototype finds a value
\* that is truthy and not the name of a queue.
QueueOf(severity) ==
  IF severity \in DOMAIN QUEUE_MAP THEN QUEUE_MAP[severity]
  ELSE IF severity \in PrototypeKeys THEN "[inherited]"
  ELSE DEFAULT_QUEUE

\* Object.values(QUEUE_MAP): the queues startWorkers subscribes a receiver to.
getQueueNames == {QUEUE_MAP[severity] : severity \in DOMAIN QUEUE_MAP}

NoMessage == [queue |-> "", event |-> "", action |-> "", severity |-> ""]

\* models/org-config createDefaultOrgConfig(org, installationId) as the stored
\* document: the configuration with the connection fields of jira, the
\* installation id and the time of the last write.
OrgDocument(org, installationId) ==
  Spread(createDefaultOrgConfig,
         [org |-> org,
          installationId |-> installationId,
          updatedAt |-> 0,
          jira |-> Spread(createDefaultOrgConfig.jira,
                          [credentialRef |-> <<"jira-", org>>, baseUrl |-> ""])])

\* A place of the container: exists is FALSE while no document is stored,
\* and doc is then what getOrgConfig answers, the default document.
NoDoc(org) == [exists |-> FALSE, doc |-> OrgDocument(org, 0)]

\* services/config getOrgConfig: the stored document, or the default one.
getOrgConfig(store, org) == store[org].doc

\* services/config upsertOrgConfig: stamps the document and writes it.
upsertOrgConfig(store, org, config, now) ==
  [store EXCEPT ![org] = [exists |-> TRUE,
                          doc |-> [config EXCEPT !.updatedAt = now]]]

\* provisionOrg without the look at the stored document: the default document
\* is written whatever the container holds.
provisionOrgAnew(store, org, installationId, now) ==
  upsertOrgConfig(store, org, OrgDocument(org, installationId), now)

\* services/config provisionOrg: a stored document with the same
\* installation id is returned as it is, one with another id gets the new id
\* and is written, and an organization without a document gets the default
\* one. A call that throws writes nothing and is the handler's "error"
\* outcome.
provisionOrg(store, org, installationId, now) ==
  IF store[org].exists
  THEN IF store[org].doc.installationId # installationId
       THEN upsertOrgConfig(store, org,
                            [store[org].doc EXCEPT !.installationId = installationId],
                            now)
       ELSE store
  ELSE upsertOrgConfig(store, org, OrgDocument(org, installationId), now)


\* router.post('/github'): the response status, the message handed to
\* enqueueAlert and whether provisionOrg is called, for a request under the
\* router's secret.  `outcome` is that of the one awaited call the request
\* leads to: a failing provisionOrg is logged, a failing enqueueAlert is
\* answered 500.
HandleWebhook(req, webhookSecret, outcome) ==
  LET payload == req.body
      action == payload.action
      quiet == [message |-> NoMessage, provision |-> FALSE]
  IN  IF ~req.hasRawBody \/ ~verifyWebhookSignature(req.body, req.signature, webhookSecret)
      THEN quiet @@ [status |-> 401]
      ELSE IF req.event = "" \/ req.event \notin SUPPORTED_EVENTS
      THEN quiet @@ [status |-> 200]
      ELSE IF req.event = "installation"
              /\ action \in {"created", "new_permissions_accepted"}
      THEN [quiet EXCEPT !.provision = payload.org # "" /\ payload.installationId # 0
                                         /\ outcome = "ok"]
             @@ [status |-> 200]
      ELSE IF req.event = "installation_repositories"
      THEN quiet @@ [status |-> 200]
      ELSE IF req.event \notin ALERT_EVENTS \/ action \notin ALERT_ACTIONS
      THEN quiet @@ [status |-> 200]
      ELSE IF outcome = "ok"
      THEN [quiet EXCEPT !.message =
                           [queue |-> QueueOf(extractSeverity(req.event, payload)),
                            event |-> req.event, action |-> action,
                            severity |-> extractSeverity(req.event, payload)]]
             @@ [status |-> 202]
      ELSE quiet @@ [status |-> 500]

\* ------------------------------------------------------------------------
\* The world outside: tracker stories, pull requests, queue messages
\* ------------------------------------------------------------------------

K(project, n) == <<project, n>>

\* Issues that exist in the tracker before any alert is processed: a parent
\* chain of seven (AUTH-1 .. AUTH-7, only the last an Epic), a parent cycle
\* (PROJ-1, PROJ-2), a Story, a Task one hop below it, and a Story whose
\* key has a two-segment project prefix (SUB-PROJ-9).
StoryGraph ==
  (K("AUTH", "1") :> [type |-> "Task", parent |-> K("AUTH", "2")]) @@
  (K("AUTH", "2") :> [type |-> "Task", parent |-> K("AUTH", "3")]) @@
  (K("AUTH", "3") :> [type |-> "Task", parent |-> K("AUTH", "4")]) @@
  (K("AUTH", "4") :> [type |-> "Task", parent |-> K("AUTH", "5")]) @@
  (K("AUTH", "5") :> [type |-> "Task", parent |-> K("AUTH", "6")]) @@
  (K("AUTH", "6") :> [type |-> "Task", parent |-> K("AUTH", "7")]) @@
  (K("AUTH", "7") :> [type |-> "Epic", parent |-> NoKey]) @@
  (K("PROJ", "1") :> [type |-> "Sub-task", parent |-> K("PROJ", "2")]) @@
  (K("PROJ", "2") :> [type |-> "Sub-task", parent |-> K("PROJ", "1")]) @@
  (K("PROJ", "3") :> [type |-> "Story", parent |-> NoKey]) @@
  (K("PROJ", "4") :> [type |-> "Task", parent |-> K("PROJ", "3")]) @@
  (<<"SUB", "PROJ", "9">> :> [type |-> "Story", parent |-> NoKey])

TrackerProjects == {<<"SEC">>, <<"AUTH">>, <<"PROJ">>, <<"SUB", "PROJ">>}

\* The pull request GitHub associates with a commit, with its description
\* and its commit messages as texts.
NoText == <<>>

PullRequests ==
  [sha \in {"s0", "s1", "s2", "s3", "s4", "s5", "s6", "s7"} |->
     CASE sha = "s0" -> NoPR
       [] sha = "s1" -> [number |-> 1, body |-> << <<"fix">>, K("AUTH", "1") >>,
                         commits |-> << << K("PROJ", "3") >> >>]
       [] sha = "s2" -> [number |-> 2, body |-> << <<"API", "3">>, <<"fix">> >>,
                         commits |-> << << <<"HTTP", "200">> >>,
                                        << K("PROJ", "1"), K("AUTH", "1") >>,
                                        << K("PROJ", "3") >> >>]
       [] sha = "s3" -> [number |-> 3, body |-> << K("PROJ", "3") >>, commits |-> <<>>]
       [] sha = "s4" -> [number |-> 4, body |-> << K("PROJ", "4") >>, commits |-> <<>>]
       [] sha = "s5" -> [number |-> 5, body |-> << K("PROJ", "9") >>, commits |-> <<>>]
       [] sha = "s6" -> [number |-> 6, body |-> << <<"SUB", "PROJ", "9">> >>,
                         commits |-> <<>>]
       [] sha = "s7" -> [number |-> 7,
                         body |-> << Bracketed(<<"HTTP", "200">>),
                                     Labelled(<<"URL", "2">>),
                                     <<"TLS", "1">>,
                                     Bracketed(<<"HTTPS", "123">>) >>,
                         commits |-> <<>>]]

RepoA == <<"o", "/", "w", "e", "b">>

\* The repository of the same name under another owner.
RepoB == <<"p", "/", "w", "e", "b">>

RawAlert(number, sev, ssl, adv, sha) ==
  [isObject |-> TRUE, number |-> number, html_url |-> "https://gh/alert",
   rule_severity |-> sev, rule_security_severity_level |-> ssl,
   advisory_severity |-> adv, commit_sha |-> sha,
   rule_id |-> "js/xss", rule_description |-> "XSS", path |-> " src/a.js ",
   start_line |-> IntNum(3), end_line |-> IntNum(4),
   secret_type |-> "token", advisory_id |-> "CVE-1", advisory_summary |-> "RCE"]

\* A payload without rule identifier, description, file and lines.
Bare(message) ==
  [message EXCEPT !.alert.rule_id = Null, !.alert.rule_description = "   ",
                  !.alert.path = Null, !.alert.start_line = Missing,
                  !.alert.end_line = Missing, !.alert.secret_type = Null,
                  !.alert.advisory_id = Null, !.alert.advisory_summary = Null]

CodeScan(number, ssl, sha) ==
  [org |-> "o", repo |-> RepoA, event |-> "code_scanning_alert",
   alert |-> RawAlert(IntNum(number), "warning", ssl, "", sha)]

Messages ==
  << CodeScan(5, "high", "s1"),
     CodeScan(5, "high", "s2"),
     CodeScan(5, "HIGH", "s3"),
     CodeScan(6, "critical", "s4"),
     CodeScan(6, "high", "s5"),
     CodeScan(7, "high", "s6"),
     CodeScan(7, "medium", "s0"),
     Bare(CodeScan(8, "", "")),
     [org |-> "o", repo |-> RepoA, event |-> "secret_scanning_alert",
      alert |-> RawAlert(IntNum(5), "", "", "", "")],
     [org |-> "o", repo |-> RepoA, event |-> "dependabot_alert",
      alert |-> RawAlert(IntNum(5), "", "", "low", "")],
     [org |-> "o", repo |-> RepoA, event |-> "dependabot_alert",
      alert |-> [RawAlert(IntNum(9), "", "", "Critical", "") EXCEPT !.html_url = "javascript:x"]],
     [org |-> "o", repo |-> RepoA, event |-> "code_scanning_alert",
      alert |-> RawAlert(Missing, "warning", "high", "", "s1")],
     [org |-> "o", repo |-> RepoA, event |-> "code_scanning_alert",
      alert |-> RawAlert(IntNum(0 - 1), "warning", "high", "", "s1")],
     [org |-> "o", repo |-> RepoA, event |-> "code_scanning_alert",
      alert |-> RawAlert(EmptyString, "warning", "high", "", "")],
     [org |-> "o", repo |-> RepoA, event |-> "code_scanning_alert",
      alert |-> RawAlert(Unsafe, "warning", "high", "", "s1")],
     [org |-> "o", repo |-> RepoA, event |-> "code_scanning_alert",
      alert |-> RawAlert(WordString, "warning", "high", "", "s1")],
     [org |-> "o", repo |-> RepoA, event |-> "dependabot_alert",
      alert |-> RawAlert(FalseValue, "", "", "high", "")],
     [org |-> "o", repo |-> RepoA, event |-> "code_scanning_alert",
      alert |-> [RawAlert(IntNum(5), "warning", "high", "", "s1") EXCEPT
                   !.isObject = FALSE]],
     [org |-> "o", repo |-> RepoA, event |-> "repository_advisory",
      alert |-> RawAlert(IntNum(5), "warning", "high", "", "s1")],
     CodeScan(9, "high", "s7"),
     CodeScan(10, "low", "s0"),
     CodeScan(11, "note", "s0"),
     [CodeScan(12, "", "s0") EXCEPT !.alert.rule_severity = "error"],
     [CodeScan(6, "critical", "s4") EXCEPT !.org = "p", !.repo = RepoB],
     [org |-> "o", repo |-> RepoA, event |-> "secret_scanning_alert",
      alert |-> RawAlert(IntNum(13), "", "", "", "s4")],
     [org |-> "o", repo |-> RepoA, event |-> "dependabot_alert",
      alert |-> RawAlert(IntNum(14), "", "", "high", "s3")] >>

\* Configurations the store may hold for the organization.
WithNotifications ==
  [createDefaultOrgConfig EXCEPT
     !.notifications = [prComment |-> [enabled |-> TRUE],
                        slack |-> [enabled |-> TRUE, webhookRef |-> "slack-ref"],
                        teams |-> [enabled |-> TRUE, webhookRef |-> "teams-ref"]]]

OrgConfigs ==
  { createDefaultOrgConfig,
    WithNotifications,
    [createDefaultOrgConfig EXCEPT !.enabled = FALSE],
    [createDefaultOrgConfig EXCEPT
       !.repoOverrides = (RepoA :> [alerts |-> [code_scanning |-> [enabled |-> FALSE]]])],
    [createDefaultOrgConfig EXCEPT
       !.repoOverrides =
          (RepoA :> [alerts |-> [code_scanning |-> [severityThreshold |-> "critical"]],
                     jira |-> [defaultProject |-> "PROJ"]])],
    [createDefaultOrgConfig EXCEPT !.jira.securityLabel = <<"s", "e", "c", " ", "a">>],
    [createDefaultOrgConfig EXCEPT !.epicResolution.enabled = FALSE],
    [createDefaultOrgConfig EXCEPT !.epicResolution.validateType = FALSE],
    [createDefaultOrgConfig EXCEPT !.epicResolution.traverseHierarchy = FALSE],
    [createDefaultOrgConfig EXCEPT
       !.repoOverrides =
          (RepoA :> [notifications |-> [prComment |-> [enabled |-> FALSE]]])],
    [createDefaultOrgConfig EXCEPT !.alerts.code_scanning.severityThreshold = "urgent"],
    [createDefaultOrgConfig EXCEPT !.alerts.code_scanning.severityThreshold = "constructor"],
    [createDefaultOrgConfig EXCEPT !.alerts.secret_scanning.severityThreshold = "critical"],
    [createDefaultOrgConfig EXCEPT
       !.alerts.secret_scanning.severityThreshold = "constructor"] }

\* Deliveries of queue messages in one run.
MaxDeliveries == 2

\* ------------------------------------------------------------------------
\* State
\* ------------------------------------------------------------------------

VARIABLES
  active,       \* the worker invocations that may run
  faults,       \* which calls may fail in this run: "setup", "core", "enrich"
  limit,        \* how many messages the queue delivers in this run
  inbox,        \* indices of the Messages the queue may deliver
  cfgStore,     \* the organization's stored configuration
  deliveries,   \* messages delivered so far
  wk,           \* per worker: the locals of its processAlertMessage invocation
  issues,       \* tracker: the issues created, in creation order
  links,        \* tracker: issue links created
  remoteLinks,  \* tracker: issues given a remote link
  web,          \* the webhook endpoint: its secret, what it enqueued and stored
  script        \* the standalone script's resolveEpic call

vars ==
  <<active, faults, limit, inbox, cfgStore, deliveries, wk, issues, links, remoteLinks, web,
    script>>

Idle ==
  [pc |-> "idle", msg |-> 0, orgConfig |-> createDefaultOrgConfig,
   fetched |-> createDefaultOrgConfig, normalized |-> NoAlert, exit |-> "none",
   handler |-> "none", existingKey |-> NoKey, prNumber |-> 0, prBody |-> NoText,
   commits |-> <<>>, found |-> NoKey, userStory |-> NoKey, epicStart |-> NoKey, epicDepth |-> 0,
   epicReads |-> 0, verified |-> {}, issueKey |-> NoKey, issueIdx |-> 0, calls |-> {},
   failed |-> {}, searchOutcome |-> "none", verifyOutcome |-> "none",
   createOutcome |-> "none", priorSettled |-> FALSE, sends |-> 0, resent |-> {}]

Message(l) == Messages[l.msg]

\* startWorkers' processMessage: an error of processAlertMessage is logged
\* and thrown again, anything else completes the message.
HandlerSwallows(threw) == "completed"

HandlerRethrowsAlways(threw) == "rethrown"

HandlerOutcome(threw) == IF threw THEN "rethrown" ELSE "completed"

Throw(l) == [l EXCEPT !.pc = "done", !.exit = "threw", !.handler = HandlerOutcome(TRUE)]

Complete(l, reason) ==
  [l EXCEPT !.pc = "done", !.exit = reason, !.handler = HandlerOutcome(FALSE)]

Called(l, call) == [l EXCEPT !.calls = @ \cup {call}]

Failed(l, call) == [l EXCEPT !.failed = @ \cup {call}]

\* What a call may answer besides its regular result: the reads that prepare
\* the invocation (configuration, credentials, pull request: "setup"), the
\* tracker calls up to and including the creation of the issue ("core"), and
\* the calls after it ("enrich").
SetupFaults == IF "setup" \in faults THEN {"error"} ELSE {}

CoreFaults == IF "core" \in faults THEN {"error"} ELSE {}

EnrichFaults == IF "enrich" \in faults THEN {"error"} ELSE {}

VerifyFaults == IF "core" \in faults THEN {"e5xx", "network", "timeout"} ELSE {}

\* createJiraClient's axios-retry settings.  A failure is "network" (no
\* response, connection error), "timeout" or "lost" (no response, the request
\* was aborted by the client's timeout), "e5xx", or a 4xx answer.
retries == 3

IdempotentMethods == {"GET", "HEAD", "OPTIONS", "PUT", "DELETE"}

isNetworkOrIdempotentRequestError(method, failure) ==
  \/ failure = "network"
  \/ method \in IdempotentMethods /\ failure \in {"network", "e5xx"}

retryCondition(method, failure) ==
  isNetworkOrIdempotentRequestError(method, failure) \/ failure = "e5xx"

\* Whether the client sends the request in flight once more after `failure`;
\* `resent` holds the re-sends of the request in flight.
ResendsOnceMore(l, method, failure) == retryCondition(method, failure) /\ l.sends <= retries

Resends(l, method, failure) == retryCondition(method, failure) /\ l.sends < retries

Resend(l, method, failure) ==
  [l EXCEPT !.sends = @ + 1, !.resent = @ \cup {<<method, failure>>}]

Answered(l) == [l EXCEPT !.sends = 0, !.resent = {}]

\* The duplicate search may fail with an error status, a network error or a
\* response body without the fields the code reads.
SearchFaults == IF "core" \in faults THEN {"error", "network", "malformed"} ELSE {}

\* ------------------------------------------------------------------------
\* processAlertMessage: the code between two awaited calls
\* ------------------------------------------------------------------------

\* Steps 1-3: the exits taken before any client is created.
PolicyExitNoThreshold(stored, message) ==
  IF ~stored.enabled THEN "disabled"
  ELSE LET cfg == mergeRepoOverrides(stored, message.repo)
           n == normalizeAlert(message.event, message.alert)
       IN  IF n = NoAlert THEN "invalid"
           ELSE IF ~cfg.alerts[n._type].enabled THEN "typeDisabled"
           ELSE "none"

PolicyExitNoTypeFlag(stored, message) ==
  IF ~stored.enabled THEN "disabled"
  ELSE LET cfg == mergeRepoOverrides(stored, message.repo)
           n == normalizeAlert(message.event, message.alert)
       IN  IF n = NoAlert THEN "invalid"
           ELSE IF ~meetsSeverityThreshold(getEffectiveSeverity(n),
                                           cfg.alerts[n._type].severityThreshold)
                THEN "belowThreshold"
                ELSE "none"

PolicyExit(stored, message) ==
  IF ~stored.enabled THEN "disabled"
  ELSE LET cfg == mergeRepoOverrides(stored, message.repo)
           n == normalizeAlert(message.event, message.alert)
       IN  IF n = NoAlert THEN "invalid"
           ELSE IF ~cfg.alerts[n._type].enabled THEN "typeDisabled"
           ELSE IF ~meetsSeverityThreshold(getEffectiveSeverity(n),
                                           cfg.alerts[n._type].severityThreshold)
                THEN "belowThreshold"
                ELSE "none"

\* Step 12, Teams, and the end of the function.
AfterSlack(l) ==
  IF /\ l.orgConfig.notifications.teams.enabled
     /\ l.orgConfig.notifications.teams.webhookRef # ""
  THEN [l EXCEPT !.pc = "teamsSecret"]
  ELSE Complete(l, "created")

\* Step 12, Slack.
AfterComment(l) ==
  IF /\ l.orgConfig.notifications.slack.enabled
     /\ l.orgConfig.notifications.slack.webhookRef # ""
  THEN [l EXCEPT !.pc = "slackSecret"]
  ELSE AfterSlack(l)

\* Step 11.
AfterRemoteLink(l) ==
  IF l.prNumber # 0 /\ l.orgConfig.notifications.prComment.enabled
  THEN [l EXCEPT !.pc = "prComment"]
  ELSE AfterComment(l)

\* Step 10, remote link: createRemoteLink returns early on a bad key or URL.
AfterLink(l) ==
  IF /\ l.normalized.html_url # ""
     /\ isValidJiraKey(l.issueKey)
     /\ sanitizeUrl(l.normalized.html_url) # ""
  THEN [l EXCEPT !.pc = "remoteLink"]
  ELSE AfterRemoteLink(l)

\* Step 10, story link: linkJiraIssues returns early on a bad key.
AfterCreate(l) ==
  IF l.userStory # NoKey /\ isValidJiraKey(l.issueKey) /\ isValidJiraKey(l.userStory)
  THEN [l EXCEPT !.pc = "linkVerify"]
  ELSE AfterLink(l)

\* Step 8 once verifyJiraIssue has answered.
AfterVerify(l, exists) ==
  IF exists /\ l.orgConfig.epicResolution.validateType
  THEN IF ResolveEpicStops(l.userStory, 0)
       THEN [l EXCEPT !.pc = "create"]
       ELSE [l EXCEPT !.pc = "epic", !.epicStart = l.userStory, !.epicDepth = 0]
  ELSE IF ~exists
       THEN [l EXCEPT !.pc = "create", !.userStory = NoKey]
       ELSE [l EXCEPT !.pc = "create"]

\* Step 7's findUserStory and the guard of step 8; verifyJiraIssue answers
\* false without a request for a key that is not a valid tracker key.
AfterCommits(l) ==
  LET us == findUserStory(l.prBody, l.commits)
      l1 == [l EXCEPT !.found = us, !.userStory = us]
  IN  IF us # NoKey /\ l.orgConfig.epicResolution.enabled
      THEN IF isValidJiraKey(us) THEN [l1 EXCEPT !.pc = "verify"] ELSE AfterVerify(l1, FALSE)
      ELSE [l1 EXCEPT !.pc = "create"]

AfterFindPR(l) ==
  IF l.prNumber # 0 THEN [l EXCEPT !.pc = "commits"] ELSE AfterCommits(l)

AfterDedupByPayload(l) ==
  IF Message(l).alert.commit_sha # "" THEN [l EXCEPT !.pc = "findPR"] ELSE AfterFindPR(l)

AfterDedup(l) ==
  IF l.normalized.commit_sha # "" THEN [l EXCEPT !.pc = "findPR"] ELSE AfterFindPR(l)

\* resolveEpic after a successful read of the current key: it returns (the
\* pipeline goes on to create) or recurses on the parent one level deeper.
EpicAfterReadNoTraversal(l, issue) == [l EXCEPT !.pc = "create"]

EpicAfterRead(l, issue) ==
  IF issue.type \in l.orgConfig.epicResolution.acceptedTypes
  THEN [l EXCEPT !.pc = "create"]
  ELSE IF l.orgConfig.epicResolution.traverseHierarchy /\ issue.parent # NoKey
       THEN IF ResolveEpicStops(issue.parent, l.epicDepth + 1)
            THEN [l EXCEPT !.pc = "create", !.userStory = issue.parent,
                           !.epicDepth = l.epicDepth + 1]
            ELSE [l EXCEPT !.userStory = issue.parent, !.epicDepth = l.epicDepth + 1]
       ELSE [l EXCEPT !.pc = "create"]

\* ------------------------------------------------------------------------
\* Actions: one awaited call each, with the code that follows it
\* ------------------------------------------------------------------------

Set(w, l) == wk' = [wk EXCEPT ![w] = l]

Tracker == <<issues, links, remoteLinks>>

Setup == <<active, faults, limit, inbox, cfgStore, web, script>>

\* An issue is settled once the invocation that created it has finished.
Settled(i) == \A w \in active : ~(wk[w].issueIdx = i /\ wk[w].pc # "done")

\* The queue hands a message to a free worker.
Receive(w) ==
  /\ w \in active
  /\ wk[w].pc \in {"idle", "done"}
  /\ deliveries < limit
  /\ \E m \in inbox :
       Set(w, [Idle EXCEPT !.pc = "config", !.msg = m,
                           !.priorSettled =
                              \E i \in 1..Len(issues) : issues[i].msg = m /\ Settled(i)])
  /\ deliveries' = deliveries + 1
  /\ UNCHANGED <<Setup, Tracker>>

\* 1-3. getOrgConfig, mergeRepoOverrides, normalizeAlert, policy checks.
LoadConfig(w) ==
  /\ w \in active
  /\ wk[w].pc = "config"
  /\ \E outcome \in ({"ok"} \cup SetupFaults) :
       LET l == Called(wk[w], "config")
           reason == PolicyExit(cfgStore, Message(l))
       IN  IF outcome # "ok" THEN Set(w, Throw(l))
           ELSE IF reason # "none"
                THEN Set(w, Complete([l EXCEPT
                                        !.orgConfig = cfgStore,
                                        !.fetched =
                                           IF reason = "disabled" THEN cfgStore
                                           ELSE OrgConfigAfterMerge(cfgStore, Message(l).repo)],
                                     reason))
                ELSE Set(w, [l EXCEPT
                               !.pc = "ghClient",
                               !.fetched = OrgConfigAfterMerge(cfgStore, Message(l).repo),
                               !.orgConfig = mergeRepoOverrides(cfgStore, Message(l).repo),
                               !.normalized =
                                  normalizeAlert(Message(l).event, Message(l).alert)])
  /\ UNCHANGED <<Setup, deliveries, Tracker>>

\* 4. createGitHubClient (installation token).
GitHubClient(w) ==
  /\ w \in active
  /\ wk[w].pc = "ghClient"
  /\ \E outcome \in ({"ok"} \cup SetupFaults) :
       LET l == Called(wk[w], "ghToken")
       IN  IF outcome = "ok" THEN Set(w, [l EXCEPT !.pc = "creds"]) ELSE Set(w, Throw(l))
  /\ UNCHANGED <<Setup, deliveries, Tracker>>

\* 5. getJiraCredentials, createJiraClient.
JiraCredentials(w) ==
  /\ w \in active
  /\ wk[w].pc = "creds"
  /\ \E outcome \in ({"ok"} \cup SetupFaults) :
       LET l == Called(wk[w], "jiraSecret")
       IN  IF outcome = "ok" THEN Set(w, [l EXCEPT !.pc = "dedup"]) ELSE Set(w, Throw(l))
  /\ UNCHANGED <<Setup, deliveries, Tracker>>

\* 6. checkForDuplicate: a failed search is logged and answers null.
SearchThrowsOnError(outcome) == outcome # "ok"

SearchThrows(outcome) == FALSE

CheckForDuplicate(w) ==
  /\ w \in active
  /\ wk[w].pc = "dedup"
  /\ LET l == Called(wk[w], "search")
         matches == SearchMatches(issues,
                                  DedupSearchLabels(l.normalized,
                                                    RepoShortName(Message(l).repo),
                                                    l.orgConfig.jira.securityLabel))
         answers == (IF matches = {} THEN {<<"ok", 0>>} ELSE {<<"ok", i>> : i \in matches})
                      \cup {<<f, 0>> : f \in SearchFaults}
     IN  \E a \in answers :
           LET l1 == [l EXCEPT !.searchOutcome = a[1]]
           IN  IF SearchThrows(a[1]) THEN Set(w, Throw(Failed(l1, "search")))
               ELSE IF a[1] # "ok" THEN Set(w, AfterDedup(Failed(l1, "search")))
               ELSE IF a[2] = 0 THEN Set(w, AfterDedup(l1))
               ELSE Set(w, Complete([l1 EXCEPT !.existingKey = issues[a[2]].key],
                                    "duplicate"))
  /\ UNCHANGED <<Setup, deliveries, Tracker>>

\* 7. findPRForCommit: an error is logged and answers null.
FindPRForCommit(w) ==
  /\ w \in active
  /\ wk[w].pc = "findPR"
  /\ \E outcome \in ({"ok"} \cup SetupFaults) :
       LET l == Called(wk[w], "findPR")
           pr == PullRequests[l.normalized.commit_sha]
       IN  IF outcome = "ok" /\ pr # NoPR
           THEN Set(w, AfterFindPR([l EXCEPT !.prNumber = pr.number, !.prBody = pr.body]))
           ELSE IF outcome = "ok" THEN Set(w, AfterFindPR(l))
           ELSE Set(w, AfterFindPR(Failed(l, "findPR")))
  /\ UNCHANGED <<Setup, deliveries, Tracker>>

\* 7. fetchPRCommits: an error is logged and answers [].
FetchPRCommits(w) ==
  /\ w \in active
  /\ wk[w].pc = "commits"
  /\ \E outcome \in ({"ok"} \cup SetupFaults) :
       LET l == Called(wk[w], "listCommits")
           pr == PullRequests[l.normalized.commit_sha]
       IN  IF outcome = "ok"
           THEN Set(w, AfterCommits([l EXCEPT !.commits = pr.commits]))
           ELSE Set(w, AfterCommits(Failed(l, "listCommits")))
  /\ UNCHANGED <<Setup, deliveries, Tracker>>

\* 8. verifyJiraIssue: true on a response, false on 404, any other error
\* is thrown again and nothing in processAlertMessage catches it.
VerifyThrows(outcome) == outcome \notin {"ok", "e404"}

VerifyJiraIssue(w) ==
  /\ w \in active
  /\ wk[w].pc = "verify"
  /\ \E outcome \in (IF wk[w].userStory \in DOMAIN StoryGraph THEN {"ok"} ELSE {"e404"})
                       \cup VerifyFaults :
       LET l == [Answered(Called(wk[w], "verify")) EXCEPT !.verifyOutcome = outcome]
       IN  IF Resends(wk[w], "GET", outcome)
           THEN Set(w, Resend(Called(wk[w], "verify"), "GET", outcome))
           ELSE IF VerifyThrows(outcome) THEN Set(w, Throw(Failed(l, "verify")))
           ELSE IF outcome = "ok"
                THEN Set(w, AfterVerify([l EXCEPT !.verified = @ \cup {l.userStory}], TRUE))
                ELSE Set(w, AfterVerify(l, FALSE))
  /\ UNCHANGED <<Setup, deliveries, Tracker>>

\* 8. resolveEpic: one read of the current key; an error returns that key.
ResolveEpicRead(w) ==
  /\ w \in active
  /\ wk[w].pc = "epic"
  /\ \E outcome \in (IF wk[w].userStory \in DOMAIN StoryGraph THEN {"ok"} ELSE {"e404"})
                       \cup CoreFaults :
       LET l == [Called(wk[w], "epicRead") EXCEPT !.epicReads = @ + 1]
       IN  IF outcome = "ok"
           THEN Set(w, EpicAfterRead(l, StoryGraph[l.userStory]))
           ELSE Set(w, [Failed(l, "epicRead") EXCEPT !.pc = "create"])
  /\ UNCHANGED <<Setup, deliveries, Tracker>>

NumberSegment(n) == <<"1", "2", "3", "4", "5", "6", "7", "8", "9">>[n]

\* 9. createJiraIssue: the POST is awaited outside any try, so a rejected or
\* failed request fails processAlertMessage.  "lost" is a request the
\* tracker carried out whose response never arrived.
CreateJiraIssue(w) ==
  /\ w \in active
  /\ wk[w].pc = "create"
  /\ LET l == Called(wk[w], "create")
         project == IssueProject(l.userStory, l.orgConfig.jira)
         key == project \o <<NumberSegment(Len(issues) + 1)>>
         issue == [key |-> key,
                   project |-> project,
                   labels |-> IssueLabels(l.normalized, l.userStory, l.orgConfig.jira,
                                          Message(l).repo),
                   description |->
                     buildDescription(l.normalized, Message(l).repo, PrUrl(l.prNumber),
                                      HeadSha(l.normalized.commit_sha, l.prNumber),
                                      l.prNumber),
                   priority |-> mapSeverityToPriority(getEffectiveSeverity(l.normalized)),
                   story |-> l.userStory,
                   msg |-> l.msg]
         answers == (IF project \in TrackerProjects THEN {"ok"} ELSE {"e400"})
                      \cup CoreFaults
                      \cup (IF "core" \in faults THEN {"e5xx", "lost"} ELSE {})
     IN  \E outcome \in answers :
           LET l1 == [Answered(l) EXCEPT !.createOutcome = outcome]
           IN  /\ issues' = IF outcome \in {"ok", "lost"} /\ project \in TrackerProjects
                            THEN Append(issues, issue)
                            ELSE issues
               /\ IF outcome # "ok" /\ Resends(l, "POST", outcome)
                  THEN Set(w, Resend(l, "POST", outcome))
                  ELSE IF outcome = "ok"
                  THEN Set(w, AfterCreate([l1 EXCEPT !.issueKey = key,
                                                     !.issueIdx = Len(issues) + 1]))
                  ELSE Set(w, Throw(Failed(l1, "create")))
  /\ UNCHANGED <<Setup, deliveries, links, remoteLinks>>

\* linkJiraIssues and createRemoteLink, postPRComment, getWebhookUrl and the
\* two notification senders wrap their request in try/catch: whether an
\* error of the request leaves the function.
EnrichmentThrowsOnError(call, outcome) == outcome # "ok" /\ call = "link"

EnrichmentThrows(call, outcome) == FALSE

AfterEnrichment(l, call, outcome, next) ==
  IF EnrichmentThrows(call, outcome) THEN Throw(Failed(l, call))
  ELSE IF outcome = "ok" THEN next
  ELSE Failed(next, call)

\* 10. linkJiraIssues: its own verifyJiraIssue of the story.
LinkVerify(w) ==
  /\ w \in active
  /\ wk[w].pc = "linkVerify"
  /\ \E outcome \in (IF wk[w].userStory \in DOMAIN StoryGraph THEN {"ok"} ELSE {"e404"})
                       \cup EnrichFaults :
       LET l == Called(wk[w], "linkVerify")
       IN  IF outcome = "ok" THEN Set(w, [l EXCEPT !.pc = "link"])
           ELSE Set(w, AfterEnrichment(l, "linkVerify", outcome, AfterLink(l)))
  /\ UNCHANGED <<Setup, deliveries, Tracker>>

\* 10. linkJiraIssues: POST /issueLink.
LinkJiraIssues(w) ==
  /\ w \in active
  /\ wk[w].pc = "link"
  /\ \E outcome \in ({"ok"} \cup EnrichFaults
                        \cup (IF "enrich" \in faults THEN {"e5xx"} ELSE {})) :
       LET l == Answered(Called(wk[w], "link"))
       IN  /\ IF outcome # "ok" /\ Resends(wk[w], "POST", outcome)
              THEN Set(w, Resend(Called(wk[w], "link"), "POST", outcome))
              ELSE Set(w, AfterEnrichment(l, "link", outcome, AfterLink(l)))
           /\ links' = IF outcome = "ok"
                       THEN links \cup {[inward |-> l.issueKey, outward |-> l.userStory]}
                       ELSE links
  /\ UNCHANGED <<Setup, deliveries, issues, remoteLinks>>

\* 10. createRemoteLink.
CreateRemoteLink(w) ==
  /\ w \in active
  /\ wk[w].pc = "remoteLink"
  /\ \E outcome \in ({"ok"} \cup EnrichFaults) :
       LET l == Called(wk[w], "remoteLink")
       IN  /\ Set(w, AfterEnrichment(l, "remoteLink", outcome, AfterRemoteLink(l)))
           /\ remoteLinks' = IF outcome = "ok" THEN remoteLinks \cup {l.issueKey}
                             ELSE remoteLinks
  /\ UNCHANGED <<Setup, deliveries, issues, links>>

\* 11. postPRComment.
PostPRComment(w) ==
  /\ w \in active
  /\ wk[w].pc = "prComment"
  /\ \E outcome \in ({"ok"} \cup EnrichFaults) :
       LET l == Called(wk[w], "prComment")
       IN  Set(w, AfterEnrichment(l, "prComment", outcome, AfterComment(l)))
  /\ UNCHANGED <<Setup, deliveries, Tracker>>

\* 12. getWebhookUrl for Slack: an error, or a secret without a value, is ''.
SlackSecret(w) ==
  /\ w \in active
  /\ wk[w].pc = "slackSecret"
  /\ \E outcome \in {"ok", "empty"} \cup EnrichFaults :
       LET l == Called(wk[w], "slackSecret")
       IN  IF outcome = "ok" THEN Set(w, [l EXCEPT !.pc = "slack"])
           ELSE Set(w, AfterEnrichment(l, "slackSecret", outcome, AfterSlack(l)))
  /\ UNCHANGED <<Setup, deliveries, Tracker>>

\* 12. sendSlackNotification.
SendSlackNotification(w) ==
  /\ w \in active
  /\ wk[w].pc = "slack"
  /\ \E outcome \in ({"ok"} \cup EnrichFaults) :
       LET l == Called(wk[w], "slack")
       IN  Set(w, AfterEnrichment(l, "slack", outcome, AfterSlack(l)))
  /\ UNCHANGED <<Setup, deliveries, Tracker>>

\* 12. getWebhookUrl for Teams.
TeamsSecret(w) ==
  /\ w \in active
  /\ wk[w].pc = "teamsSecret"
  /\ \E outcome \in {"ok", "empty"} \cup EnrichFaults :
       LET l == Called(wk[w], "teamsSecret")
       IN  IF outcome = "ok" THEN Set(w, [l EXCEPT !.pc = "teams"])
           ELSE Set(w, AfterEnrichment(l, "teamsSecret", outcome, Complete(l, "created")))
  /\ UNCHANGED <<Setup, deliveries, Tracker>>

\* 12. sendTeamsNotification, then the end of processAlertMessage.
SendTeamsNotification(w) ==
  /\ w \in active
  /\ wk[w].pc = "teams"
  /\ \E outcome \in ({"ok"} \cup EnrichFaults) :
       LET l == Called(wk[w], "teams")
       IN  Set(w, AfterEnrichment(l, "teams", outcome, Complete(l, "created")))
  /\ UNCHANGED <<Setup, deliveries, Tracker>>

\* ------------------------------------------------------------------------
\* Specifications
\* ------------------------------------------------------------------------

Workers == {"w1", "w2"}

TypeOK ==
  /\ active \subseteq Workers
  /\ deliveries \in 0..limit

\* The endpoint before its first request.
NoRequest ==
  [signature |-> "", genuine |-> FALSE, event |-> "", action |-> "", status |-> 0,
   enqueued |-> FALSE, wrote |-> FALSE]

WebOrgs == {"o"}

\* The admin API before its first PUT.
NoPut == [count |-> 0, org |-> "", body |-> "", status |-> 0]

WebIdle(secret) ==
  [secret |-> secret, served |-> 0, sent |-> <<>>, store |-> [o \in WebOrgs |-> NoDoc(o)],
   last |-> NoRequest, put |-> NoPut]

\* The time of the next write to the container.
Now == web.served + web.put.count + 1

\* The standalone script before its resolveEpic call.
Epic == [validateType |-> TRUE, traverseHierarchy |-> TRUE, acceptedTypes |-> {"Epic", "Story"}]

ScriptIdle == [pc |-> "idle", start |-> NoKey, key |-> NoKey, reads |-> 0, config |-> Epic]

InitCommon ==
  /\ web = WebIdle("k")
  /\ script = ScriptIdle
  /\ deliveries = 0
  /\ wk = [w \in Workers |-> Idle]
  /\ issues = <<>>
  /\ links = {}
  /\ remoteLinks = {}

\* The messages a run starts from and the configuration stored for their
\* organisation: every message under the default configuration, and the
\* messages of ConfigProbes under every configuration.
ConfigProbes == {2, 4, 8, 9, 22}

Deliverable ==
  {d \in (1..Len(Messages)) \X OrgConfigs :
     d[2] = createDefaultOrgConfig \/ d[1] \in ConfigProbes}

\* One worker handed one of the messages, again and again, under one of the
\* configurations; either the preparing reads or the tracker calls up to the
\* creation of the issue may fail.
Init ==
  /\ active = {"w1"}
  /\ faults \in {{"setup"}, {"core"}}
  /\ limit = MaxDeliveries
  /\ \E d \in Deliverable : inbox = {d[1]} /\ cfgStore = d[2]
  /\ InitCommon

\* Two workers handed the same alert, no call failing.
InitRace ==
  /\ active = Workers
  /\ faults = {}
  /\ limit = MaxDeliveries
  /\ inbox = {4}
  /\ cfgStore = WithNotifications
  /\ InitCommon

\* Two workers handed two messages about different alerts, no call failing:
\* alerts of one repository with different numbers, or alerts of the same
\* number in repositories of the same name under different owners.
AlertPairs == {{4, 6}, {4, 24}}

InitPair ==
  /\ active = Workers
  /\ faults = {}
  /\ limit = MaxDeliveries
  /\ inbox \in AlertPairs
  /\ cfgStore = WithNotifications
  /\ InitCommon

\* One invocation in which every call may fail, those after the creation of
\* the issue included.
InitEnrich ==
  /\ active = {"w1"}
  /\ faults = {"setup", "core", "enrich"}
  /\ limit = 1
  /\ \E d \in Deliverable : inbox = {d[1]} /\ cfgStore = d[2]
  /\ InitCommon

\* The requests the endpoint may receive.
WebhookEvents == SUPPORTED_EVENTS \cup {"ping", ""}

WebhookActions == ALERT_ACTIONS \cup {"fixed", "new_permissions_accepted"}

WebhookBodies ==
  {b \in [action : WebhookActions, org : WebOrgs \cup {""}, installationId : {0, 7},
          severity : {"high", "note", "constructor"}] :
     /\ b.org # "" \/ b.installationId # 0
     /\ b.severity # "high" => (b.action = "created" /\ b.org # "" /\ b.installationId # 0)}

OtherBody == [action |-> "created", org |-> "x", installationId |-> 1, severity |-> "low"]

WebhookSignatures(body) ==
  {PlainSignature(kind) : kind \in {"absent", "empty", "short"}}
    \cup {Hmac(key, body) : key \in {"k", "other", ""}}
    \cup {Hmac("k", OtherBody)}

\* express.json's verify hook stores the raw body of every body it parses; a
\* request it does not parse reaches the handler without one.
WebhookRequests ==
  UNION {{[hasRawBody |-> TRUE, body |-> b, event |-> e, signature |-> sg] :
            e \in WebhookEvents, sg \in WebhookSignatures(b)}
           \cup {[hasRawBody |-> FALSE, body |-> b, event |-> e, signature |-> Hmac("k", b)] :
                   e \in WebhookEvents}
         : b \in WebhookBodies}

MaxRequests == 2

\* Whether the signature header is the HMAC-SHA256 of the request's raw body
\* under the router's secret, the secret being set.
GenuineSignature(req, secret) ==
  /\ req.hasRawBody
  /\ secret # ""
  /\ req.signature = Hmac(secret, req.body)

\* The awaited call of a request, if it makes one, may fail.
WebhookOutcomes(req, secret) ==
  LET r == HandleWebhook(req, secret, "ok")
  IN  IF r.message # NoMessage \/ r.provision THEN {"ok", "error"} ELSE {"ok"}

\* POST /api/webhooks/github, from the request to the response.
PostGithub ==
  /\ web.served < MaxRequests
  /\ \E req \in WebhookRequests :
     \E outcome \in WebhookOutcomes(req, web.secret) :
       LET r == HandleWebhook(req, web.secret, outcome)
           store == IF r.provision
                    THEN provisionOrg(web.store, req.body.org, req.body.installationId, Now)
                    ELSE web.store
       IN  web' = [web EXCEPT
                     !.served = @ + 1,
                     !.sent = IF r.message # NoMessage THEN Append(@, r.message) ELSE @,
                     !.store = store,
                     !.last = [signature |-> req.signature.kind,
                               genuine |-> GenuineSignature(req, web.secret),
                               event |-> req.event,
                               action |-> req.body.action,
                               status |-> r.status,
                               enqueued |-> r.message # NoMessage,
                               wrote |-> store # web.store]]
  /\ UNCHANGED <<active, faults, limit, inbox, cfgStore, deliveries, wk, Tracker, script>>

\* A document an administrator has customised, as the container holds it.
Customised(org, installationId) ==
  [OrgDocument(org, installationId) EXCEPT
     !.jira.baseUrl = "https://corp",
     !.jira.linkType = "Blocks",
     !.jira.securityLabel = <<"s", "e", "c">>,
     !.alerts.dependabot.severityThreshold = "high"]

Configured ==
  {[o \in WebOrgs |-> [exists |-> TRUE, doc |-> Customised(o, installationId)]] :
     installationId \in {5, 7}}

\* The endpoint alone, under an empty or a set secret.
InitWebhook ==
  /\ active = {}
  /\ faults = {}
  /\ limit = 0
  /\ inbox = {}
  /\ cfgStore = createDefaultOrgConfig
  /\ deliveries = 0
  /\ wk = [w \in Workers |-> Idle]
  /\ issues = <<>>
  /\ links = {}
  /\ remoteLinks = {}
  /\ web \in {WebIdle(secret) : secret \in {"", "k"}}
  /\ script = ScriptIdle

NextWebhook == PostGithub

SpecWebhook == InitWebhook /\ [][NextWebhook]_vars

\* The endpoint over a container that holds a customised document.
InitProvision ==
  /\ active = {}
  /\ faults = {}
  /\ limit = 0
  /\ inbox = {}
  /\ cfgStore = createDefaultOrgConfig
  /\ deliveries = 0
  /\ wk = [w \in Workers |-> Idle]
  /\ issues = <<>>
  /\ links = {}
  /\ remoteLinks = {}
  /\ web \in {[WebIdle("k") EXCEPT !.store = store] : store \in Configured}
  /\ script = ScriptIdle

SpecProvision == InitProvision /\ [][NextWebhook]_vars

\* The bodies an administrator sends: each names some fields of the
\* configuration, the first one the connection fields of jira only.
PutBodyNames == {"connection", "disable", "thresholds", "rename"}

PutBody(name) ==
  CASE name = "connection" ->
         [jira |-> [credentialRef |-> <<"jira-", "acme">>, baseUrl |-> "https://acme",
                    defaultProject |-> "SEC"]]
    [] name = "disable" -> [enabled |-> FALSE]
    [] name = "thresholds" ->
         [alerts |-> [code_scanning |-> [enabled |-> TRUE, severityThreshold |-> "medium"],
                      secret_scanning |-> [enabled |-> TRUE, severityThreshold |-> "low"],
                      dependabot |-> [enabled |-> TRUE, severityThreshold |-> "high"]]]
    [] name = "rename" -> [org |-> "x", installationId |-> 5]

MaxPuts == 3

\* PUT /api/admin/config/orgs/:org, from the request to the response: the
\* stored document (or the default one) spread with the body, its org forced
\* to the one of the path, then written; a failure of the container is
\* answered 500.
PutOrg ==
  /\ web.put.count < MaxPuts
  /\ \E orgName \in WebOrgs, name \in PutBodyNames, outcome \in {"ok", "error"} :
       LET existing == getOrgConfig(web.store, orgName)
           updated == Spread(Spread(existing, PutBody(name)), [org |-> orgName])
       IN  web' = [web EXCEPT
                     !.store = IF outcome = "ok"
                               THEN upsertOrgConfig(@, orgName, updated, Now)
                               ELSE @,
                     !.put = [count |-> @.count + 1,
                              org |-> orgName,
                              body |-> name,
                              status |-> IF outcome = "ok" THEN 200 ELSE 500]]
  /\ UNCHANGED <<active, faults, limit, inbox, cfgStore, deliveries, wk, Tracker, script>>

\* The admin API alone, over an empty container or a customised document.
InitConfig ==
  /\ active = {}
  /\ faults = {}
  /\ limit = 0
  /\ inbox = {}
  /\ cfgStore = createDefaultOrgConfig
  /\ deliveries = 0
  /\ wk = [w \in Workers |-> Idle]
  /\ issues = <<>>
  /\ links = {}
  /\ remoteLinks = {}
  /\ web \in {WebIdle("k")} \cup {[WebIdle("k") EXCEPT !.store = store] : store \in Configured}
  /\ script = ScriptIdle

NextConfig == PutOrg

SpecConfig == InitConfig /\ [][NextConfig]_vars

\* scripts/create-jira-issues.js: resolveEpic is called for a story that
\* verifyJiraIssue found; its settings come from the environment.
ScriptConfigs ==
  [validateType : BOOLEAN, traverseHierarchy : BOOLEAN,
   acceptedTypes : {{"Epic", "Story"}, {"Epic"}}]

MaxScriptReads == 6

\* One call of the script's resolveEpic, recursive calls included: the
\* validateType test, the read of the key, and the code after the read.  A
\* failed read returns the key that was being read.
ScriptResolveEpic ==
  /\ script.pc = "run"
  /\ IF ~script.config.validateType
     THEN script' = [script EXCEPT !.pc = "done"]
     ELSE \E outcome \in {"ok", "error"} :
            LET issue == StoryGraph[script.key]
                read == [script EXCEPT !.reads = Min(@ + 1, MaxScriptReads)]
            IN  IF outcome # "ok" THEN script' = [read EXCEPT !.pc = "done"]
                ELSE IF issue.type \in script.config.acceptedTypes
                     THEN script' = [read EXCEPT !.pc = "done"]
                     ELSE IF script.config.traverseHierarchy /\ issue.parent # NoKey
                          THEN script' = [read EXCEPT !.key = issue.parent]
                          ELSE script' = [read EXCEPT !.pc = "done"]
  /\ UNCHANGED <<active, faults, limit, inbox, cfgStore, deliveries, wk, Tracker, web>>

\* The script alone, about to resolve one of the tracker's issues.
InitScript ==
  /\ active = {}
  /\ faults = {}
  /\ limit = 0
  /\ inbox = {}
  /\ cfgStore = createDefaultOrgConfig
  /\ deliveries = 0
  /\ wk = [w \in Workers |-> Idle]
  /\ issues = <<>>
  /\ links = {}
  /\ remoteLinks = {}
  /\ web = WebIdle("k")
  /\ \E k \in DOMAIN StoryGraph, c \in ScriptConfigs :
       script = [pc |-> "run", start |-> k, key |-> k, reads |-> 0, config |-> c]

NextScript == ScriptResolveEpic

\* The event loop runs every continuation that is ready.
SpecScript == InitScript /\ [][NextScript]_vars /\ WF_vars(NextScript)

Next ==
  \E w \in Workers :
    \/ Receive(w)
    \/ LoadConfig(w)
    \/ GitHubClient(w)
    \/ JiraCredentials(w)
    \/ CheckForDuplicate(w)
    \/ FindPRForCommit(w)
    \/ FetchPRCommits(w)
    \/ VerifyJiraIssue(w)
    \/ ResolveEpicRead(w)
    \/ CreateJiraIssue(w)
    \/ LinkVerify(w)
    \/ LinkJiraIssues(w)
    \/ CreateRemoteLink(w)
    \/ PostPRComment(w)
    \/ SlackSecret(w)
    \/ SendSlackNotification(w)
    \/ TeamsSecret(w)
    \/ SendTeamsNotification(w)

Spec == Init /\ [][Next]_vars

\* One worker handed one alert again and again, the tracker calls up to the
\* creation of the issue failing or not; the worker runs on and the queue
\* delivers while it may.
InitLive ==
  /\ active = {"w1"}
  /\ faults = {"core"}
  /\ limit = MaxDeliveries
  /\ inbox = {4}
  /\ cfgStore = WithNotifications
  /\ InitCommon

SpecLive == InitLive /\ [][Next]_vars /\ WF_vars(Next)

SpecEnrich == InitEnrich /\ [][Next]_vars

SpecRace == InitRace /\ [][Next]_vars

SpecPair == InitPair /\ [][Next]_vars

\* ------------------------------------------------------------------------
\* Properties
\* ------------------------------------------------------------------------

Running == {w \in active : wk[w].msg # 0}

WriteCalls == {"create", "linkVerify", "link", "remoteLink"}

TrackerCalls == {"search", "verify", "epicRead"} \cup WriteCalls

SourceControlCalls == {"ghToken", "findPR", "listCommits", "prComment"}

NotificationCalls == {"slackSecret", "slack", "teamsSecret", "teams"}

EnrichmentCalls == {"linkVerify", "link", "remoteLink", "prComment"} \cup NotificationCalls

\* The alert of an invocation and the policy that governs it, from the
\* message and the stored configuration alone.
AlertOf(w) == normalizeAlert(Message(wk[w]).event, Message(wk[w]).alert)

PolicyOf(w) == mergeRepoOverrides(cfgStore, Message(wk[w]).repo)

SearchedLabels(w) ==
  DedupSearchLabels(AlertOf(w), RepoShortName(Message(wk[w]).repo),
                    PolicyOf(w).jira.securityLabel)

\* C1: an invocation that starts when the tracker holds an issue created for
\* the identical message by a finished invocation, and whose duplicate search
\* succeeds, finds that issue and issues no create, link, remote link, PR
\* comment or notification.
C1_RedeliveryFindsIssueAndWritesNothing ==
  \A w \in Running :
    (wk[w].priorSettled /\ wk[w].searchOutcome = "ok")
      => /\ wk[w].existingKey # NoKey
         /\ wk[w].calls \cap (WriteCalls \cup {"prComment"} \cup NotificationCalls) = {}

\* C2: two invocations for the same alert whose duplicate searches both
\* succeeded and returned null, and whose create-issue calls both succeeded,
\* leave two different tracker issues that carry the alert's identity label.
SameAlertRace(w1, w2) ==
  /\ w1 # w2
  /\ \A w \in {w1, w2} :
       /\ wk[w].searchOutcome = "ok"
       /\ wk[w].existingKey = NoKey
       /\ wk[w].createOutcome = "ok"
  /\ AlertOf(w1) = AlertOf(w2)
  /\ Message(wk[w1]).repo = Message(wk[w2]).repo

IdentityLabelOf(w) ==
  sanitizeLabel(IdentityTemplate(RepoShortName(Message(wk[w]).repo), AlertOf(w)._type,
                                 AlertOf(w).number))

C2_RacingWorkersBothCreate ==
  \A w1 \in Running, w2 \in Running :
    SameAlertRace(w1, w2)
      => /\ wk[w1].issueIdx # wk[w2].issueIdx
         /\ IdentityLabelOf(w1) \in issues[wk[w1].issueIdx].labels
         /\ IdentityLabelOf(w1) \in issues[wk[w2].issueIdx].labels

C2_Witness ==
  \E w1 \in Running, w2 \in Running :
    /\ SameAlertRace(w1, w2)
    /\ Len(issues) = 2
    /\ IdentityLabelOf(w1) \in issues[1].labels \cap issues[2].labels

\* C3: the identity label and the security marker label of every created
\* issue are the two labels the duplicate search for the same alert asks for.
C3_CreatedIssueMatchesItsOwnSearch ==
  \A w \in Running :
    wk[w].issueIdx # 0 => SearchedLabels(w) \subseteq issues[wk[w].issueIdx].labels

\* C4: a create-issue call is issued only after, in the same invocation, the
\* tenant was found enabled, the alert normalized, its type was enabled in
\* the merged policy, its effective severity met the merged threshold and the
\* duplicate check returned null.
C4_CreateOnlyAfterEveryCheck ==
  \A w \in Running :
    "create" \in wk[w].calls
      => /\ "config" \in wk[w].calls
         /\ cfgStore.enabled
         /\ AlertOf(w) # NoAlert
         /\ PolicyOf(w).alerts[AlertOf(w)._type].enabled
         /\ SeverityLevel(getEffectiveSeverity(AlertOf(w)))
              >= SeverityLevel(PolicyOf(w).alerts[AlertOf(w)._type].severityThreshold)
         /\ "search" \in wk[w].calls
         /\ wk[w].existingKey = NoKey

C4_Witness ==
  \E w \in Running : wk[w].createOutcome = "ok" /\ wk[w].issueIdx # 0

\* C5: a message whose tenant is disabled, whose alert does not normalize,
\* whose alert type is disabled or whose severity is below the threshold
\* causes no tracker, source-control or notification call; a message dropped
\* as a duplicate causes no tracker write, pull-request lookup, PR comment or
\* notification.
PolicyExcluded(w) ==
  \/ ~cfgStore.enabled
  \/ AlertOf(w) = NoAlert
  \/ ~PolicyOf(w).alerts[AlertOf(w)._type].enabled
  \/ SeverityLevel(getEffectiveSeverity(AlertOf(w)))
       < SeverityLevel(PolicyOf(w).alerts[AlertOf(w)._type].severityThreshold)

C5_DroppedMessageMakesNoCall ==
  \A w \in Running :
    /\ PolicyExcluded(w)
         => wk[w].calls \cap (TrackerCalls \cup SourceControlCalls \cup NotificationCalls) = {}
    /\ wk[w].exit = "duplicate"
         => wk[w].calls \cap (WriteCalls \cup {"findPR", "listCommits", "prComment"}
                                \cup NotificationCalls) = {}

C5_Witness ==
  \E w \in Running :
    /\ wk[w].pc = "done"
    /\ wk[w].exit = "typeDisabled"
    /\ deliveries = 2

\* C6: when the create-issue call fails, processAlertMessage fails, the
\* message handler throws the error again, and the invocation attempts no
\* issue link, remote link, PR comment or notification.
C6_CreateFailureIsRethrown ==
  \A w \in Running :
    wk[w].createOutcome \notin {"none", "ok"}
      => /\ wk[w].pc = "done"
         /\ wk[w].exit = "threw"
         /\ wk[w].handler = "rethrown"
         /\ wk[w].calls \cap EnrichmentCalls = {}

C6_Witness ==
  \E w \in Running : wk[w].createOutcome = "error" /\ wk[w].handler = "rethrown"

\* C7: once create-issue has returned an issue, processAlertMessage does not
\* fail, whichever of the link, story re-check, remote link, PR comment,
\* webhook-secret and chat calls fail; the handler completes the message.
C7_EnrichmentFailuresNeverFailTheMessage ==
  \A w \in Running :
    wk[w].createOutcome = "ok"
      => /\ wk[w].exit # "threw"
         /\ wk[w].handler # "rethrown"
         /\ wk[w].pc = "done" => (wk[w].exit = "created" /\ wk[w].handler = "completed")

C7_Witness ==
  \E w \in Running :
    /\ wk[w].pc = "done"
    /\ wk[w].handler = "completed"
    /\ {"link", "remoteLink", "prComment", "slack", "teamsSecret"} \subseteq wk[w].failed

\* C8: every answer of the story's existence check other than "exists" makes
\* the story absent and lets processing go on to issue creation; it never
\* makes processAlertMessage fail.
C8_VerificationErrorDiscardsStory ==
  \A w \in Running :
    wk[w].verifyOutcome \notin {"none", "ok"}
      => /\ wk[w].userStory = NoKey
         /\ "create" \notin wk[w].calls => wk[w].pc = "create"

\* C9: a story key passed to createJiraIssue, or the key its EPIC resolution
\* started from, was confirmed to exist earlier in the same invocation.
C9_StoryGivenToCreateWasVerified ==
  \A w \in Running :
    ("create" \in wk[w].calls /\ wk[w].userStory # NoKey)
      => (wk[w].userStory \in wk[w].verified \/ wk[w].epicStart \in wk[w].verified)

\* C10: resolveEpic makes at most 5 tracker reads, its depth never exceeds
\* 5, and when it has returned the story is a key.
C10_ResolveEpicBounded ==
  \A w \in Running :
    /\ wk[w].epicReads <= MAX_TRAVERSAL_DEPTH
    /\ wk[w].epicDepth <= MAX_TRAVERSAL_DEPTH
    /\ (wk[w].epicStart # NoKey /\ wk[w].pc # "epic") => wk[w].userStory \in DOMAIN StoryGraph

C10_Witness ==
  \E w \in Running :
    /\ wk[w].epicStart = K("PROJ", "1")
    /\ wk[w].epicReads = MAX_TRAVERSAL_DEPTH
    /\ wk[w].pc = "create"
    /\ wk[w].userStory = K("PROJ", "2")

\* C11: when a tracker read of the EPIC traversal fails, at depth 0 or after
\* parent hops, resolveEpic does not throw and the story the pipeline goes on
\* with is the key the traversal was started with.
C11_FailedReadReturnsStartKey ==
  \A w \in Running :
    "epicRead" \in wk[w].failed
      => /\ wk[w].exit # "threw" \/ "create" \in wk[w].calls
         /\ wk[w].userStory = wk[w].epicStart

\* C12: when the duplicate search fails (error status, network error or
\* malformed body) checkForDuplicate answers null without throwing, and the
\* invocation goes on to the create-issue call as it does when no duplicate
\* exists; it can only end earlier through a failure of the story check.
C12_FailedSearchMeansNoDuplicate ==
  \A w \in Running :
    wk[w].searchOutcome \notin {"none", "ok"}
      => /\ wk[w].existingKey = NoKey
         /\ wk[w].exit # "duplicate"
         /\ wk[w].pc = "done"
              => ("create" \in wk[w].calls \/ wk[w].verifyOutcome \in VerifyFaults)

C12_Witness ==
  \E w \in Running :
    /\ wk[w].priorSettled
    /\ wk[w].searchOutcome = "malformed"
    /\ wk[w].createOutcome = "ok"
    /\ Len(issues) = 2

\* C13: the tracker client sends a failed request again only after a network
\* error, or after a 5xx answer to an idempotent request; it never sends a
\* create-issue or issue-link POST again after a 5xx answer, nor any request
\* after a 4xx answer.
C13_ResendOnlyNetworkOrIdempotent5xx ==
  \A w \in Running :
    \A r \in wk[w].resent :
      \/ r[2] = "network"
      \/ r[1] \in IdempotentMethods /\ r[2] = "e5xx"

\* C14: when the extractor returned a story key that exists in the tracker
\* and no call of the invocation failed, the finished invocation has created
\* one issue whose project is the prefix of that key or of its resolved
\* ancestor, an issue link from the new issue to that key exists, and the
\* issue does not carry the missing-story label; multi-segment keys included.
StoryOutcomeAsSpecified(w) ==
  LET l == wk[w]
      issue == issues[l.issueIdx]
  IN  /\ l.issueIdx # 0
      /\ deliveries = 1 => Len(issues) = 1
      /\ \E k \in {l.found, l.userStory} \ {NoKey} :
           /\ issue.project = SubSeq(k, 1, Len(k) - 1)
           /\ [inward |-> l.issueKey, outward |-> k] \in links
      /\ sanitizeLabel(l.orgConfig.jira.fallbackLabel) \notin issue.labels

C14_ExistingStoryIsLinked ==
  \A w \in Running :
    (/\ wk[w].pc = "done"
     /\ wk[w].exit = "created"
     /\ wk[w].found \in DOMAIN StoryGraph
     /\ wk[w].failed = {})
      => StoryOutcomeAsSpecified(w)

\* C15: the story findUserStory returned is a surviving candidate of the PR
\* description whenever the description has one, whatever the commits hold;
\* otherwise it is the first surviving candidate of the first commit, in the
\* order supplied, that has one; otherwise it is null.
StorySearched(l) ==
  \/ l.pc \in {"verify", "epic", "create"}
  \/ "create" \in l.calls
  \/ l.pc = "done" /\ "verify" \in l.calls

WithCandidates(commits) == {i \in 1..Len(commits) : extractJiraKeys(commits[i]) # <<>>}

C15_DescriptionBeforeCommits ==
  \A w \in Running :
    StorySearched(wk[w])
      => LET l == wk[w]
             prKeys == extractJiraKeys(l.prBody)
             having == WithCandidates(l.commits)
         IN  IF prKeys # <<>>
             THEN \E i \in 1..Len(prKeys) : l.found = prKeys[i]
             ELSE IF having # {}
                  THEN \E i \in having :
                         /\ \A j \in having : i <= j
                         /\ l.found = extractJiraKeys(l.commits[i])[1]
                  ELSE l.found = NoKey

C15_Witness ==
  \E w \in Running :
    /\ StorySearched(wk[w])
    /\ wk[w].prBody # NoText
    /\ extractJiraKeys(wk[w].prBody) = <<>>
    /\ Len(wk[w].commits) = 3
    /\ extractJiraKeys(wk[w].commits[1]) = <<>>
    /\ wk[w].found = K("PROJ", "1")

\* C16: meetsSeverityThreshold(a, t) is true exactly when level(a) >=
\* level(t), every value that is not a known severity having level 0: an
\* alert whose type is enabled is dropped as below the threshold exactly
\* when its level is lower than the level of the threshold, so an
\* unrecognized threshold drops no alert.
ThresholdChecked(l) == l.exit = "belowThreshold" \/ "ghToken" \in l.calls

C16_ThresholdIsLevelComparison ==
  \A w \in Running :
    ThresholdChecked(wk[w])
      => (wk[w].exit = "belowThreshold"
            <=> SeverityLevel(getEffectiveSeverity(AlertOf(w)))
                  < SeverityLevel(PolicyOf(w).alerts[AlertOf(w)._type].severityThreshold))

\* C17: the policy an invocation works with has, for every field present in
\* the repository's override (alert-type flag and threshold, tracker fields,
\* notification settings), the override's value, and for every other field
\* the tenant default's value.
Merged(l) == l.pc = "ghClient" \/ "ghToken" \in l.calls

\* group "alerts" or "notifications": records of records, field by field.
OverridesGroup(merged, default, override) ==
  \A k \in DOMAIN default :
    \A f \in DOMAIN default[k] :
      merged[k][f] = IF k \in DOMAIN override /\ f \in DOMAIN override[k]
                     THEN override[k][f]
                     ELSE default[k][f]

OverridesFlat(merged, default, override) ==
  \A f \in DOMAIN default :
    merged[f] = IF f \in DOMAIN override THEN override[f] ELSE default[f]

Part(override, group) == IF group \in DOMAIN override THEN override[group] ELSE <<>>

C17_OverrideAppliedFieldByField ==
  \A w \in Running :
    Merged(wk[w])
      => LET repo == Message(wk[w]).repo
             override == IF repo \in DOMAIN cfgStore.repoOverrides
                         THEN cfgStore.repoOverrides[repo] ELSE <<>>
             merged == wk[w].orgConfig
         IN  /\ OverridesGroup(merged.alerts, cfgStore.alerts, Part(override, "alerts"))
             /\ OverridesFlat(merged.jira, cfgStore.jira, Part(override, "jira"))
             /\ OverridesGroup(merged.notifications, cfgStore.notifications,
                               Part(override, "notifications"))

\* C18: every create-issue payload carries the security marker label,
\* severity-{effective severity}, repo-{short name}, the alert-type label and
\* the identity label, and carries the missing-story label exactly when the
\* story given to the creation is null.
PayloadAlert(issue) == normalizeAlert(Messages[issue.msg].event, Messages[issue.msg].alert)

PayloadPolicy(issue) == mergeRepoOverrides(cfgStore, Messages[issue.msg].repo).jira

\* The five strings the payload's labels are made from, as written.
NamedLabels(issue) ==
  LET alert == PayloadAlert(issue)
      repoName == RepoShortName(Messages[issue.msg].repo)
  IN  {PayloadPolicy(issue).securityLabel,
       Chars("severity-") \o Chars(getEffectiveSeverity(alert)),
       Chars("repo-") \o repoName,
       ReplaceUnderscores(Chars(alert._type)),
       IdentityTemplate(repoName, alert._type, alert.number)}

C18_PayloadCarriesNamedLabels ==
  \A i \in 1..Len(issues) :
    /\ NamedLabels(issues[i]) \subseteq issues[i].labels
    /\ PayloadPolicy(issues[i]).fallbackLabel \in issues[i].labels
         <=> issues[i].story = NoKey

\* C18 (as the code has it): every create-issue payload carries the five
\* labels after sanitizeLabel has replaced each character outside
\* [a-zA-Z0-9_.-] by a hyphen, and carries the sanitized missing-story label
\* exactly when the story given to the creation is null.
C18_PayloadCarriesSanitizedLabels ==
  \A i \in 1..Len(issues) :
    /\ \A label \in NamedLabels(issues[i]) : sanitizeLabel(label) \in issues[i].labels
    /\ sanitizeLabel(PayloadPolicy(issues[i]).fallbackLabel) \in issues[i].labels
         <=> issues[i].story = NoKey

C18_Witness ==
  \E i \in 1..Len(issues) :
    /\ issues[i].story # NoKey
    /\ PayloadPolicy(issues[i]).securityLabel = <<"s", "e", "c", " ", "a">>
    /\ <<"s", "e", "c", "-", "a">> \in issues[i].labels
    /\ PayloadPolicy(issues[i]).fallbackLabel \notin issues[i].labels

\* C19: the description of every created issue has the sections severity,
\* rule identifier, affected file, line range, rule description, alert link,
\* pull-request link, repository, commit SHA and PR number, also for an
\* alert without a pull request; no section is left out or left empty.
DescriptionSections ==
  {"Severity", "Rule", "Affected File", "Lines", "Description", "GitHub Security Alert",
   "Pull Request", "Repository", "Commit SHA", "PR Number"}

C19_DescriptionHasEverySection ==
  \A i \in 1..Len(issues) :
    \A name \in DescriptionSections :
      \E j \in 1..Len(issues[i].description) :
        /\ issues[i].description[j].section = name
        /\ issues[i].description[j].text # <<"">>

\* C20: normalizeAlert fails exactly when the payload is not an object, the
\* alert number is missing, negative, non-finite or not a safe integer, or
\* the event is none of the three alert events; otherwise the alert it
\* returns has the event's type and the payload's number.
KnownEvents ==
  [code_scanning_alert |-> "code_scanning", secret_scanning_alert |-> "secret_scanning",
   dependabot_alert |-> "dependabot"]

InvalidAlert(message) ==
  \/ ~message.alert.isObject
  \/ message.alert.number.kind # "int"
  \/ message.alert.number.val < 0
  \/ message.event \notin DOMAIN KnownEvents

NormalizeApplied(l) ==
  \/ l.exit \in {"invalid", "typeDisabled", "belowThreshold"}
  \/ "ghToken" \in l.calls
  \/ l.pc = "ghClient"

C20_NormalizeFailsExactlyOnInvalid ==
  \A w \in Running :
    NormalizeApplied(wk[w])
      => /\ wk[w].exit = "invalid" <=> InvalidAlert(Message(wk[w]))
         /\ wk[w].exit # "invalid"
              => /\ AlertOf(w)._type = KnownEvents[Message(wk[w]).event]
                 /\ Message(wk[w]).alert.number = IntNum(AlertOf(w).number)

\* C21: an invocation that drops its message as malformed, as excluded by
\* policy (tenant disabled, alert type disabled, below the threshold) or as a
\* duplicate has returned without an error: the worker's handler completes
\* the message and does not throw, so the transport has nothing to redeliver
\* or dead-letter.
DropReasons == {"invalid", "disabled", "typeDisabled", "belowThreshold", "duplicate"}

C21_DroppedMessageCompletes ==
  \A w \in Running :
    (wk[w].exit \in DropReasons \/ wk[w].existingKey # NoKey)
      => /\ wk[w].pc = "done"
         /\ wk[w].exit # "threw"
         /\ wk[w].handler = "completed"

C21_Witness ==
  \E w \in Running :
    /\ wk[w].exit = "duplicate"
    /\ wk[w].handler = "completed"
    /\ deliveries = 2

\* C22: the endpoint enqueues a message or writes a configuration only for a
\* request whose signature header is the HMAC-SHA256 of its raw body under
\* the configured secret; a request whose signature is missing, empty,
\* malformed or mismatching, or that arrives while the secret is empty, is
\* answered 401 and causes no enqueue and no configuration write.
Unprovisioned == [o \in WebOrgs |-> NoDoc(o)]

C23_QueuedMessagesAreNewAlerts ==
  /\ \A i \in 1..Len(web.sent) :
       /\ web.sent[i].event
            \in {"code_scanning_alert", "secret_scanning_alert", "dependabot_alert"}
       /\ web.sent[i].action \in {"created", "reopened"}
  /\ (/\ web.served > 0
      /\ web.last.genuine
      /\ \/ web.last.event
              \notin {"code_scanning_alert", "secret_scanning_alert", "dependabot_alert"}
         \/ web.last.action \notin {"created", "reopened"})
       => (web.last.status = 200 /\ ~web.last.enqueued)

C23_Witness ==
  /\ web.last.genuine
  /\ web.last.event = "dependabot_alert"
  /\ web.last.action = "fixed"
  /\ web.last.status = 200
  /\ Len(web.sent) = 1

\* C24: no key returned by extractJiraKeys or findUserStory is one of HTTP,
\* ERROR, ISO, UTF, TCP, UDP, SSL, TLS, API, SDK, CLI, URL, URI followed by
\* a hyphen and digits, whether the token stood bare, after a marker or in
\* square brackets; a two-segment lookalike that is not on the list, such as
\* HTTPS-123, is returned.
Denylisted(key) ==
  /\ Len(key) = 2
  /\ key[1] \in {"HTTP", "ERROR", "ISO", "UTF", "TCP", "UDP", "SSL", "TLS", "API", "SDK",
                  "CLI", "URL", "URI"}
  /\ key[2] \in NumberSegments

\* The token of an item without its marker or brackets.
Written(item) ==
  IF item # <<>> /\ item[1] = "JIRA:" THEN Tail(item)
  ELSE IF Len(item) >= 2 /\ item[1] = "[" THEN SubSeq(item, 2, Len(item) - 1)
  ELSE item

Lookalike(token) ==
  /\ Len(token) = 2
  /\ token[1] \in LeadSegments
  /\ token[2] \in NumberSegments
  /\ ~Denylisted(token)

TextsOf(l) == {l.prBody} \cup {l.commits[i] : i \in 1..Len(l.commits)}

C24_DenylistedTokensAreNoKeys ==
  \A w \in Running :
    /\ ~Denylisted(wk[w].found)
    /\ \A text \in TextsOf(wk[w]) :
         LET keys == extractJiraKeys(text)
         IN  /\ \A i \in 1..Len(keys) : ~Denylisted(keys[i])
             /\ \A j \in 1..Len(text) :
                  Lookalike(Written(text[j])) => \E i \in 1..Len(keys) : keys[i] = Written(text[j])

C24_Witness ==
  \E w \in Running :
    /\ StorySearched(wk[w])
    /\ \E j \in 1..Len(wk[w].prBody) : wk[w].prBody[j] = <<"[", "HTTP", "200", "]">>
    /\ \E j \in 1..Len(wk[w].prBody) : wk[w].prBody[j] = <<"JIRA:", "URL", "2">>
    /\ \E j \in 1..Len(wk[w].prBody) : wk[w].prBody[j] = <<"TLS", "1">>
    /\ wk[w].found = <<"HTTPS", "123">>

\* C25: the priority of every created issue is the one the fixed table
\* gives for the alert's effective severity (critical Highest, high High,
\* medium Medium, low Low, warning Low, note Lowest, error High), and Medium
\* for a severity that is not in the table.
PriorityTable ==
  [critical |-> "Highest", high |-> "High", medium |-> "Medium", low |-> "Low",
   warning |-> "Low", note |-> "Lowest", error |-> "High"]

C25_PriorityFollowsTheTable ==
  \A i \in 1..Len(issues) :
    LET severity == getEffectiveSeverity(PayloadAlert(issues[i]))
    IN  issues[i].priority = IF severity \in DOMAIN PriorityTable
                             THEN PriorityTable[severity]
                             ELSE "Medium"

C25_Witness ==
  \E i \in 1..Len(issues) :
    /\ getEffectiveSeverity(PayloadAlert(issues[i])) = "note"
    /\ issues[i].priority = "Lowest"

\* C26: a secret-scanning payload that normalizes has severity and effective
\* severity critical and is never dropped by the threshold check, whatever
\* threshold is configured; only the tenant flag, the alert-type flag and
\* the duplicate check drop it.
C26_SecretAlertsPassEveryThreshold ==
  \A w \in Running :
    (AlertOf(w) # NoAlert /\ Message(wk[w]).event = "secret_scanning_alert")
      => /\ AlertOf(w).rule.severity = "critical"
         /\ getEffectiveSeverity(AlertOf(w)) = "critical"
         /\ wk[w].exit # "belowThreshold"
         /\ wk[w].exit \in DropReasons
              => wk[w].exit \in {"disabled", "typeDisabled", "duplicate"}

\* C27: within one invocation the existence of the story key is checked in
\* the tracker at most once, and no step after the story is resolved, the
\* linking step in particular, checks it again.
C27_StoryVerifiedAtMostOnce ==
  \A w \in Running :
    /\ ~({"verify", "linkVerify"} \subseteq wk[w].calls)
    /\ "create" \in wk[w].calls => "linkVerify" \notin wk[w].calls

\* C28: when every read succeeds and traversal is enabled, resolveEpic
\* returns the first key of the parent chain from the input key on (the
\* input included) whose issue type is accepted, provided one occurs among
\* the first 5 keys of the chain; with traversal disabled it returns the
\* input key, whatever its type.
RECURSIVE ParentChain(_, _)
ParentChain(key, n) ==
  IF n = 0 \/ key \notin DOMAIN StoryGraph THEN <<>>
  ELSE <<key>> \o ParentChain(StoryGraph[key].parent, n - 1)

ResolveEpicReturned(l) ==
  l.epicStart # NoKey /\ l.pc # "epic" /\ "epicRead" \notin l.failed

DifferentAlerts(m1, m2) ==
  \/ Messages[m1].repo # Messages[m2].repo
  \/ Messages[m1].event # Messages[m2].event
  \/ Messages[m1].alert.number # Messages[m2].alert.number

BothProcessedOnce ==
  /\ deliveries = 2
  /\ \A w \in Workers : wk[w].pc = "done"
  /\ {wk[w].msg : w \in Workers} = inbox
  /\ \A m1 \in inbox, m2 \in inbox : m1 # m2 => DifferentAlerts(m1, m2)

IssuesFor(m) == {i \in 1..Len(issues) : issues[i].msg = m}

C29_OutcomeIndependentOfOrder ==
  (BothProcessedOnce /\ Cardinality(inbox) = 2)
    => \A w \in Workers :
         /\ Cardinality(IssuesFor(wk[w].msg)) = 1
         /\ \A i \in IssuesFor(wk[w].msg) :
              /\ issues[i].labels
                   = IssueLabels(normalizeAlert(Message(wk[w]).event, Message(wk[w]).alert),
                                 issues[i].story, cfgStore.jira, Message(wk[w]).repo)
              /\ issues[i].project = IssueProject(issues[i].story, cfgStore.jira)
              /\ {k.outward : k \in {k \in links : k.inward = issues[i].key}}
                   = {issues[i].story} \ {NoKey}

\* C30: every tracker HTTP call is attempted at most 4 times, one attempt and
\* at most 3 re-sends, and then returns or fails to its caller: re-sends are
\* counted only while the call is in flight and never exceed 3.
RetriedCalls == {"verify", "create", "link"}

C31_ScriptResolveEpicTerminates == <>(script.pc = "done")

\* C32: the key resolveEpic returns is either the input key unchanged or a
\* key whose issue type was read and found in acceptedTypes; it is never an
\* ancestor whose type is not accepted or was never read.
ReadAndAccepted(w, key) ==
  LET chain == ParentChain(wk[w].epicStart, MAX_TRAVERSAL_DEPTH + 1)
  IN  \E i \in 1..Len(chain) :
        /\ chain[i] = key
        /\ i <= wk[w].epicReads
        /\ "epicRead" \notin wk[w].failed
        /\ StoryGraph[key].type \in PolicyOf(w).epicResolution.acceptedTypes

C32_ReturnsInputOrAcceptedKey ==
  \A w \in Running :
    (wk[w].epicStart # NoKey /\ wk[w].pc # "epic")
      => \/ wk[w].userStory = wk[w].epicStart
         \/ ReadAndAccepted(w, wk[w].userStory)

\* C33: two alerts that differ in organization, repository, alert type or
\* alert number never have the same identity label, so the issue that
\* checkForDuplicate reports for an alert was created for that same alert.
DistinctAlerts(m1, m2) ==
  Messages[m1].org # Messages[m2].org \/ DifferentAlerts(m1, m2)

C33_IdentityLabelsDistinguishAlerts ==
  /\ \A w1 \in Running, w2 \in Running :
       (/\ wk[w1].normalized # NoAlert
        /\ wk[w2].normalized # NoAlert
        /\ DistinctAlerts(wk[w1].msg, wk[w2].msg))
         => IdentityLabelOf(w1) # IdentityLabelOf(w2)
  /\ \A w \in Running :
       \A i \in 1..Len(issues) :
         (wk[w].existingKey # NoKey /\ issues[i].key = wk[w].existingKey)
           => ~DistinctAlerts(issues[i].msg, wk[w].msg)

\* C34: every issue the tracker holds for an alert eventually has its
\* enrichment attempted: when the create-issue request succeeded at the
\* tracker but its response was lost and the message is delivered again,
\* some invocation still makes the remote link, and the story link when a
\* story was resolved, for that issue, unless the last delivery failed and
\* the queue still owes a redelivery.
Linkable(i) ==
  /\ i <= Len(issues)
  /\ isValidJiraKey(issues[i].key)
  /\ sanitizeUrl(normalizeAlert(Messages[issues[i].msg].event,
                                Messages[issues[i].msg].alert).html_url) # ""

Enriched(i) ==
  /\ i <= Len(issues)
  /\ issues[i].key \in remoteLinks
  /\ (issues[i].story # NoKey /\ isValidJiraKey(issues[i].story))
       => [inward |-> issues[i].key, outward |-> issues[i].story] \in links

RedeliveryOwed ==
  /\ deliveries = limit
  /\ \E w \in Running : wk[w].pc = "done" /\ wk[w].exit = "threw"

C34_EveryIssueIsEnriched ==
  \A i \in 1..MaxDeliveries : Linkable(i) ~> (Enriched(i) \/ RedeliveryOwed)

\* C35: for every payload that normalizes, the alert's effective severity is
\* one of critical, high, medium, low, note, warning; a missing or
\* unrecognized scanner severity, the tool severity "error" included, becomes
\* medium; the severity label and the priority of the issue are those of
\* that severity.
KnownSeverities == {"critical", "high", "medium", "low", "note", "warning"}

\* The severity the scanner reported, as the payload carries it.
ScannerSeverity(message) ==
  CASE message.event = "secret_scanning_alert" -> "critical"
    [] message.event = "dependabot_alert" -> message.alert.advisory_severity
    [] OTHER -> IF message.alert.rule_security_severity_level # ""
                THEN message.alert.rule_security_severity_level
                ELSE message.alert.rule_severity

StoryCalls == {"findPR", "listCommits", "verify", "epicRead", "linkVerify", "link", "prComment"}

C36_NoStoryForSecretAndDependabot ==
  \A w \in Running :
    Message(wk[w]).event \in {"secret_scanning_alert", "dependabot_alert"}
      => /\ wk[w].calls \cap StoryCalls = {}
         /\ wk[w].pc \notin {"findPR", "listCommits", "verify", "epic", "linkVerify",
                              "link", "prComment"}
         /\ wk[w].userStory = NoKey
         /\ wk[w].prNumber = 0
         /\ wk[w].issueIdx # 0
              => LET issue == issues[wk[w].issueIdx]
                 IN  /\ issue.project = <<PolicyOf(w).jira.defaultProject>>
                     /\ issue.story = NoKey
                     /\ sanitizeLabel(PolicyOf(w).jira.fallbackLabel) \in issue.labels
                     /\ \A k \in links : k.inward # issue.key

C36_Witness ==
  \E w \in Running :
    /\ Message(wk[w]).event = "secret_scanning_alert"
    /\ Message(wk[w]).alert.commit_sha = "s4"
    /\ wk[w].issueIdx # 0
    /\ wk[w].pc = "done"
    /\ wk[w].exit # "threw"
    /\ issues[wk[w].issueIdx].project = <<"SEC">>

\* C37: mergeRepoOverrides leaves the tenant configuration object it was
\* given unchanged, nested per-alert-type settings included, so the policy
\* resolved from that object for another repository is the one the stored
\* configuration gives.
ConfigFetched(l) ==
  /\ "config" \in l.calls
  /\ l.pc # "config"
  /\ ~(l.exit = "threw" /\ l.calls = {"config"})

C37_MergeLeavesTenantConfigUnchanged ==
  \A w \in Running :
    ConfigFetched(wk[w])
      => /\ wk[w].fetched = cfgStore
         /\ \A repo \in {RepoA, RepoB} :
              mergeRepoOverrides(wk[w].fetched, repo) = mergeRepoOverrides(cfgStore, repo)

\* C38: every message enqueueAlert sends, whatever the severity the payload
\* reported (note, warning and unrecognized values included), goes to one of
\* the queues of getQueueNames, on each of which startWorkers has subscribed
\* a worker.
C38_EveryMessageGoesToAConsumedQueue ==
  /\ \A i \in 1..Len(web.sent) : web.sent[i].queue \in getQueueNames
  /\ web.last.enqueued => web.sent[Len(web.sent)].queue \in getQueueNames

C38_Witness ==
  /\ Len(web.sent) = 2
  /\ web.sent[1].severity = "note"
  /\ web.sent[1].queue = "alerts-medium"
  /\ web.sent[2].severity = "medium"
  /\ web.sent[2].queue = "alerts-medium"

\* C39: an admin PUT with a partial body preserves every stored field the body
\* does not name, the sibling fields inside a nested object included: after
\* a PUT answered 200, each top-level field absent from the body, and each
\* field of a nested object that the body's object of that name does not
\* set, has the value it had before.
NestedFields == {"jira", "alerts", "epicResolution", "notifications"}

PreservedByPut(before, after, body) ==
  \A f \in DOMAIN before \ {"updatedAt"} :
    IF f \notin DOMAIN body
    THEN after[f] = before[f]
    ELSE f \in NestedFields
           => \A g \in DOMAIN before[f] \ DOMAIN body[f] :
                g \in DOMAIN after[f] /\ after[f][g] = before[f][g]

PutAnswered == web'.put.count = web.put.count + 1 /\ web'.put.status = 200

C39_PutPreservesUnnamedFields ==
  [][(PutAnswered /\ web.store[web'.put.org].exists)
       => PreservedByPut(getOrgConfig(web.store, web'.put.org),
                         web'.store[web'.put.org].doc,
                         PutBody(web'.put.body))]_vars

\* C40: provisionOrg for an organization that has a stored configuration
\* never resets it: a request to the endpoint leaves the stored document in
\* place, writes it only when the installation id changes, and then changes
\* nothing but installationId and updatedAt, so the jira, alert, epic,
\* notification and repository-override settings stay as stored.
SettingsOf(doc) == [f \in DOMAIN doc \ {"installationId", "updatedAt"} |-> doc[f]]

Served == web'.served = web.served + 1

====
